---- MODULE Spec2Model ----
(***************************************************************************)
(* A model of lib/requests.js (minerva-requests): request_variable,        *)
(* request and request_set.                                                *)
(*                                                                         *)
(* Request objects live in `heap`; a request_set holds references to them  *)
(* (`_requests` is a sequence of heap addresses), so that a request the    *)
(* caller built with `new request(...)` and still holds can be changed     *)
(* after it was added, as JavaScript allows.  Only objects that stay       *)
(* reachable are kept in the heap: a request that a macro builds and drops *)
(* when it throws is not stored.                                           *)
(***************************************************************************)
EXTENDS Integers, Sequences, FiniteSets, TLC

VARIABLES
    heap,         \* heap[a]: the request object at address a
    held,         \* addresses of the requests the caller built itself
    _requests,    \* request_set._requests: addresses, in append order
    _intention,   \* request_set._intention
    _model_id,    \* request_set._model_id
    _user_token,  \* request_set._user_token
    last,         \* the last call: [op, args, outcome, ret], and the batch
                  \* as the call found it (before)
    made,         \* what the caller keeps of its last add_individual: the
                  \* id it returned and the place of its request (at)
    hints,        \* hints[i]: the intention add was given with the i-th
                  \* request of the batch
    variables,    \* the request_variable objects the caller built itself
    other,        \* the request sets the caller is not calling at present:
                  \* their _requests, _intention, _model_id, _user_token
                  \* and hints
    unstructured  \* unstructured[a]: the request at address a as it would
                  \* be had structure() and callable() never been called

vars ==
    <<heap, held, _requests, _intention, _model_id, _user_token, last, made,
      hints, variables, other, unstructured>>

---------------------------------------------------------------------------
(* Bounds of the model.                                                    *)

\* Appending calls are enabled while the batch holds fewer requests.
MaxReqs == 1
\* Appending calls of the chained specification (SpecChain).
MaxChain == 3
\* Appending calls of the specification of the primitive add (SpecAdd).
MaxAdd == 2
\* Appending calls of the specification of the internal helpers (SpecHelpers).
MaxDirect == 1
\* Appending calls of the specification of the intention (SpecIntention).
MaxHinted == 2
\* Appending calls of the specification of callable() (SpecCallable).
MaxWritten == 2
\* Requests the caller builds itself with `new request`.
MaxHeld == 1
\* Variables the caller builds itself with `new request_variable`.
MaxVariables == 2
\* Appending calls of the specification of two request sets (SpecSets), on
\* each set.
MaxShared == 1
\* Appending calls of the specification of the facts (SpecFacts).
MaxFacts == 2
\* Annotation pairs a request of the caller holds (SpecAnnotations).
MaxPairs == 3
\* Largest number_to_skip given to the backward lookups.
MaxSkip == 2

---------------------------------------------------------------------------
(* JavaScript values.                                                      *)

\* null / undefined, in a slot that otherwise holds a string.
Null == "null"

\* `if( v )` on a string-or-null value.
Given(v) == v /= Null /\ v /= ""

\* Values of the parameters the code inspects with what_is(): a tag t and the
\* content v, a sequence (the string or the number alone, or the elements of
\* the array).
JsNull == [t |-> "null", v |-> <<>>]
Str(s) == [t |-> "string", v |-> <<s>>]
Arr(s) == [t |-> "array", v |-> s]
Num(n) == [t |-> "number", v |-> <<ToString(n)>>]

\* The string of a Str (Null for null).
StrOf(x) == IF x.t = "string" THEN x.v[1] ELSE Null

\* bbop.what_is
what_is(x) == x.t

\* `if( x )` on a tagged value: arrays are truthy even when empty.
truthy(x) ==
    CASE x.t = "null" -> FALSE
      [] x.t = "string" -> x.v /= <<"">>
      [] x.t = "number" -> x.v /= <<"0">>
      [] OTHER -> TRUE

\* x[i] (zero-based) on a tagged value the code indexes as a triple: a
\* missing element is undefined.
Index(x, i) ==
    IF x.t = "array" /\ i < Len(x.v) THEN x.v[i + 1] ELSE Null

\* bbop.uuid(): the n-th value generated, each one new.
uuid(n) == "u" \o ToString(n)

\* What a call returns when it returns `anchor`.
Anchor == "request_set"
\* What is left of a call that threw.
Thrown == "Error"

---------------------------------------------------------------------------
(* request_variable                                                        *)

\* A variant of _value that takes a value only while none was taken.
_value_once(rv, value) ==
    IF Given(value) /\ ~ rv._use_var_p
    THEN [_var |-> value, _use_var_p |-> TRUE]
    ELSE rv

\* _value(value) applied to the variable rv: the variable afterwards.
_value(rv, value) ==
    IF Given(value)
    THEN [_var |-> value, _use_var_p |-> TRUE]
    ELSE rv

\* A variant of request_variable that takes the constructor's value and
\* leaves the flag as it is.
request_variable_unflagged(varvalue, u) ==
    [_var |-> IF Given(varvalue) THEN varvalue ELSE u, _use_var_p |-> FALSE]

\* new request_variable(varvalue), uuid() giving u.
request_variable(varvalue, u) ==
    _value([_var |-> u, _use_var_p |-> FALSE], varvalue)

set_p(rv) == rv._use_var_p

---------------------------------------------------------------------------
(* request                                                                 *)

NoArguments == [k \in {} |-> Null]

\* new request(entity, operation), uuid() giving u.
request(entity, operation, u) ==
    [ _entity |-> entity,
      _operation |-> operation,
      _individual_id |-> request_variable(Null, u),
      _arguments |-> NoArguments ]

entity(r) == r._entity

\* _add(key, val): the request afterwards.
_add(r, key, val) ==
    [r EXCEPT !._arguments =
        [k \in (DOMAIN r._arguments) \cup {key} |->
            IF k = key THEN val ELSE r._arguments[k]]]

\* _get(key)
_get(r, key) ==
    IF key \in DOMAIN r._arguments THEN r._arguments[key] ELSE Null

\* _get_set(key, variable): the request afterwards (what it returns is
\* _get(key) of that request).
_get_set(r, key, variable) ==
    IF Given(variable) THEN _add(r, key, variable) ELSE r

\* _ensure_list(key): the request afterwards.
_ensure_list(r, key) ==
    IF key \in DOMAIN r._arguments THEN r ELSE _add(r, key, <<>>)

\* special(name, val): the request afterwards.
special(r, name, val) == _get_set(r, name, val)

\* A variant of individual() that sets the variable and leaves the
\* 'individual' argument out.
individual_unrecorded(r, ind_id) ==
    IF Given(ind_id)
    THEN [r EXCEPT !._individual_id = _value(@, ind_id)]
    ELSE r

\* individual(ind_id): the request afterwards.
individual(r, ind_id) ==
    IF Given(ind_id)
    THEN _add([r EXCEPT !._individual_id = _value(@, ind_id)],
              "individual", ind_id)
    ELSE r

\* What individual() returns.
individual_id(r) == r._individual_id._var

subject(r, sub) == _get_set(r, "subject", sub)
object(r, obj) == _get_set(r, "object", obj)
predicate(r, pred) == _get_set(r, "predicate", pred)
model(r, m) == _get_set(r, "model-id", m)

\* A variant of fact that leaves the predicate out.
fact_ends(r, sub, obj, pred) == object(subject(r, sub), obj)

\* fact(sub, obj, pred): the request afterwards.
fact(r, sub, obj, pred) == predicate(object(subject(r, sub), obj), pred)

\* add_annotation(key, vals) throws unless vals is a string or an array.
add_annotation_throws(vals) ==
    ~ (what_is(vals) = "string" \/ what_is(vals) = "array")

\* A variant of add_annotation that puts the new pairs before the others.
add_annotation_in_front(r, key, vals) ==
    LET list == IF what_is(vals) = "string" THEN <<StrOf(vals)>> ELSE vals.v
        r1 == _ensure_list(r, "values")
    IN  _add(r1, "values",
             [i \in 1..Len(list) |-> [key |-> key, value |-> list[i]]]
                 \o r1._arguments["values"])

\* add_annotation(key, vals), when it does not throw: the request afterwards.
add_annotation(r, key, vals) ==
    LET list == IF what_is(vals) = "string" THEN <<StrOf(vals)>> ELSE vals.v
        r1 == _ensure_list(r, "values")
    IN  _add(r1, "values",
             r1._arguments["values"] \o
                 [i \in 1..Len(list) |-> [key |-> key, value |-> list[i]]])

\* add_class_expression(class_expr): the request afterwards.  The structure
\* the class-expression library gives for class_expr is kept as class_expr.
add_class_expression(r, class_expr) ==
    LET r1 == _ensure_list(r, "expressions")
    IN  _add(r1, "expressions",
             Append(r1._arguments["expressions"], class_expr))

\* A variant of objectified that writes the id of every request of entity
\* 'individual', set by the caller or not.
objectified_unguarded(r) ==
    IF r._entity = "individual"
    THEN _add(r, "assign-to-variable", r._individual_id._var)
    ELSE r

\* objectify(): the request afterwards; base.arguments is the request's own
\* _arguments object, so the assignment is made in the request.
objectified(r) ==
    IF r._entity = "individual" /\ ~ set_p(r._individual_id)
    THEN _add(r, "assign-to-variable", r._individual_id._var)
    ELSE r

\* objectify(): what it returns.
objectify(r) ==
    [ entity |-> r._entity,
      operation |-> r._operation,
      arguments |-> objectified(r)._arguments ]

---------------------------------------------------------------------------
(* request_set: helpers                                                    *)

\* A variant of add_intention that takes the hint as the new intention.
add_intention_as_hinted(cur, intention) ==
    IF ~ Given(intention) THEN "action"
    ELSE IF intention = "action" \/ intention = "query" THEN intention
    ELSE cur

\* The intention after add(req, intention), cur being the one before.
add_intention(cur, intention) ==
    IF ~ Given(intention) THEN "action"
    ELSE IF intention = "action" THEN intention
    ELSE cur

RECURSIVE add_each(_, _, _)
\* The intention after n calls of add(req, intention).
add_each(cur, n, intention) ==
    IF n = 0 THEN cur
    ELSE add_each(add_intention(cur, intention), n - 1, intention)

\* `if( model_id ){ req.model(model_id); }`
with_model(r, model_id) == IF Given(model_id) THEN model(r, model_id) ELSE r

\* A variant of _ensure_fact that does not look at triple[1].
_ensure_fact_ends(triple) ==
    /\ truthy(triple)
    /\ Given(Index(triple, 0))
    /\ Given(Index(triple, 2))

\* _ensure_fact(triple) returns (TRUE) or throws (FALSE).
_ensure_fact(triple) ==
    /\ truthy(triple)
    /\ Given(Index(triple, 0))
    /\ Given(Index(triple, 1))
    /\ Given(Index(triple, 2))

RECURSIVE last_individual_loop_any(_, _, _, _)
\* A variant of the loop of last_individual_id that counts every request.
last_individual_loop_any(reqs, hp, ugh, number_to_skip) ==
    IF ugh > 0
    THEN IF number_to_skip > 0
         THEN last_individual_loop_any(reqs, hp, ugh - 1, number_to_skip - 1)
         ELSE individual_id(hp[reqs[ugh]])
    ELSE Null

RECURSIVE last_individual_loop(_, _, _, _)
\* The loop of last_individual_id, at index ugh.
last_individual_loop(reqs, hp, ugh, number_to_skip) ==
    IF ugh > 0
    THEN LET req == hp[reqs[ugh]]
         IN  IF entity(req) = "individual"
             THEN IF number_to_skip > 0
                  THEN last_individual_loop(reqs, hp, ugh - 1,
                                            number_to_skip - 1)
                  ELSE individual_id(req)
             ELSE last_individual_loop(reqs, hp, ugh - 1, number_to_skip)
    ELSE Null

\* last_individual_id(number_to_skip) on the batch reqs over the heap hp.
last_individual_id(reqs, hp, number_to_skip) ==
    last_individual_loop(reqs, hp, Len(reqs), number_to_skip)

\* What last_fact_triple returns when it finds nothing.
NoTriple == JsNull

RECURSIVE last_fact_loop_spo(_, _, _, _)
\* A variant of the loop of last_fact_triple that gives the predicate before
\* the object.
last_fact_loop_spo(reqs, hp, ugh, number_to_skip) ==
    IF ugh > 0
    THEN LET req == hp[reqs[ugh]]
         IN  IF entity(req) = "edge"
             THEN IF number_to_skip > 0
                  THEN last_fact_loop_spo(reqs, hp, ugh - 1,
                                          number_to_skip - 1)
                  ELSE Arr(<< _get(req, "subject"),
                              _get(req, "predicate"),
                              _get(req, "object") >>)
             ELSE last_fact_loop_spo(reqs, hp, ugh - 1, number_to_skip)
    ELSE JsNull

RECURSIVE last_fact_loop(_, _, _, _)
\* The loop of last_fact_triple, at index ugh.
last_fact_loop(reqs, hp, ugh, number_to_skip) ==
    IF ugh > 0
    THEN LET req == hp[reqs[ugh]]
         IN  IF entity(req) = "edge"
             THEN IF number_to_skip > 0
                  THEN last_fact_loop(reqs, hp, ugh - 1, number_to_skip - 1)
                  ELSE Arr(<< _get(req, "subject"),
                              _get(req, "object"),
                              _get(req, "predicate") >>)
             ELSE last_fact_loop(reqs, hp, ugh - 1, number_to_skip)
    ELSE NoTriple

\* last_fact_triple(number_to_skip) on the batch reqs over the heap hp.
last_fact_triple(reqs, hp, number_to_skip) ==
    last_fact_loop(reqs, hp, Len(reqs), number_to_skip)

\* A variant of Push that puts the new requests in front.
Push_in_front(news, intention) ==
    /\ heap' = heap \o news
    /\ unstructured' = unstructured \o news
    /\ _requests' = [i \in 1..Len(news) |-> Len(heap) + i] \o _requests
    /\ _intention' = add_each(_intention, Len(news), intention)
    /\ hints' = hints \o [i \in 1..Len(news) |-> intention]
    /\ UNCHANGED <<held, _model_id, _user_token, variables, other>>

\* The requests a macro built are added, in order, each with
\* add(req, intention); the caller's own requests are not touched.
Push(news, intention) ==
    /\ heap' = heap \o news
    /\ unstructured' = unstructured \o news
    /\ _requests' = _requests \o [i \in 1..Len(news) |-> Len(heap) + i]
    /\ _intention' = add_each(_intention, Len(news), intention)
    /\ hints' = hints \o [i \in 1..Len(news) |-> intention]
    /\ UNCHANGED <<held, _model_id, _user_token, variables, other>>

\* The batch, and the requests, as a call finds them.
Before == [requests |-> _requests, intention |-> _intention, heap |-> heap]

\* The call op(args) ended with outcome ("ok" or "error"), returning ret.
Return(op, args, outcome, ret) ==
    /\ last' = [op |-> op, args |-> args, outcome |-> outcome, ret |-> ret,
                before |-> Before]
    /\ made' = IF op = "add_individual" /\ Given(ret)
               THEN [id |-> ret, at |-> Len(_requests) + 1]
               ELSE made

\* A call that throws before it changes anything.
Throw(op, args) == Push(<<>>, "action") /\ Return(op, args, "error", Thrown)

\* The uuid the k-th request built by the running call gets.
fresh(k) == uuid(Len(heap) + k)

---------------------------------------------------------------------------
(* request_set: the calls.  Each records itself in `last`; a helper that   *)
(* several public calls share takes the public call (name, args) it runs   *)
(* for.                                                                    *)

\* add(req, intention), req a request the caller holds.
add(req, intention) ==
    /\ req \in held
    /\ _requests' = Append(_requests, req)
    /\ _intention' = add_intention(_intention, intention)
    /\ hints' = Append(hints, intention)
    /\ Return("add", <<req, intention>>, "ok", Anchor)
    /\ UNCHANGED <<heap, unstructured, held, _model_id, _user_token,
                   variables, other>>

\* add(new request(entity_, operation), intention): the caller adds a
\* request as it builds it, and keeps no reference to it.
add_built(entity_, operation, intention) ==
    /\ Push(<<request(entity_, operation, fresh(1))>>, intention)
    /\ Return("add", <<Len(heap) + 1, intention>>, "ok", Anchor)

add_individual(class_expr, model_id) ==
    LET args == <<class_expr, model_id>>
        ind_req ==
            add_class_expression(
                with_model(request("individual", "add", fresh(1)), model_id),
                class_expr)
    IN  IF Given(class_expr)
        THEN /\ Push(<<ind_req>>, "action")
             /\ Return("add_individual", args, "ok", individual_id(ind_req))
        ELSE /\ Push(<<>>, "action")
             /\ Return("add_individual", args, "ok", Null)

\* remove_individual, run for the call name(args).
remove_individual_for(name, args, individual_id_, model_id) ==
    LET ind_req ==
            individual(
                with_model(request("individual", "remove", fresh(1)),
                           model_id),
                individual_id_)
    IN  IF Given(individual_id_)
        THEN Push(<<ind_req>>, "action") /\ Return(name, args, "ok", Anchor)
        ELSE Push(<<>>, "action") /\ Return(name, args, "ok", Anchor)

remove_individual(individual_id_, model_id) ==
    remove_individual_for("remove_individual", <<individual_id_, model_id>>,
                          individual_id_, model_id)

\* A variant of _op_type_to_individual that takes any operation.
_op_type_to_individual_any_op(name, args, op, class_expr, individual_id_, model_id) ==
    LET type_req ==
            add_class_expression(
                with_model(
                    individual(request("individual", op \o "-type", fresh(1)),
                               individual_id_),
                    model_id),
                class_expr)
    IN  IF Given(op) /\ Given(class_expr) /\ Given(individual_id_)
        THEN /\ Push(<<type_req>>, "action")
             /\ Return(name, args, "ok", Anchor)
        ELSE Push(<<>>, "action") /\ Return(name, args, "ok", Anchor)

\* _op_type_to_individual, run for the call name(args).
_op_type_to_individual(name, args, op, class_expr, individual_id_, model_id) ==
    LET type_req ==
            add_class_expression(
                with_model(
                    individual(request("individual", op \o "-type", fresh(1)),
                               individual_id_),
                    model_id),
                class_expr)
    IN  IF Given(op) /\ Given(class_expr) /\ Given(individual_id_)
        THEN IF op /= "add" /\ op /= "remove"
             THEN Throw(name, args)
             ELSE /\ Push(<<type_req>>, "action")
                  /\ Return(name, args, "ok", Anchor)
        ELSE Push(<<>>, "action") /\ Return(name, args, "ok", Anchor)

add_type_to_individual(class_expr, individual_id_, model_id) ==
    _op_type_to_individual("add_type_to_individual",
                           <<class_expr, individual_id_, model_id>>,
                           "add", class_expr, individual_id_, model_id)

remove_type_from_individual(class_expr, individual_id_, model_id) ==
    _op_type_to_individual("remove_type_from_individual",
                           <<class_expr, individual_id_, model_id>>,
                           "remove", class_expr, individual_id_, model_id)

\* The edge request add_fact / remove_fact build for a checked triple.
edge_req(operation, triple, model_id) ==
    fact(with_model(request("edge", operation, fresh(1)), model_id),
         Index(triple, 0), Index(triple, 1), Index(triple, 2))

add_fact(triple, model_id) ==
    IF _ensure_fact(triple)
    THEN /\ Push(<<edge_req("add", triple, model_id)>>, "action")
         /\ Return("add_fact", <<triple, model_id>>, "ok", triple)
    ELSE Throw("add_fact", <<triple, model_id>>)

remove_fact(triple, model_id) ==
    IF _ensure_fact(triple)
    THEN /\ Push(<<edge_req("remove", triple, model_id)>>, "action")
         /\ Return("remove_fact", <<triple, model_id>>, "ok", Anchor)
    ELSE Throw("remove_fact", <<triple, model_id>>)

\* add_evidence: the individual it makes for the evidence.
ev_ind_req(evidence_id, model_id) ==
    add_class_expression(
        with_model(request("individual", "add", fresh(1)), model_id),
        evidence_id)

\* add_evidence: the annotation of that individual with its sources.
ev_ind_ann_req(evidence_id, source_ids, model_id) ==
    add_annotation(
        individual(
            with_model(request("individual", "add-annotation", fresh(2)),
                       model_id),
            individual_id(ev_ind_req(evidence_id, model_id))),
        "source", source_ids)

\* add_evidence: the annotation of a target individual with the evidence.
ind_ann_req(evidence_id, target_identifier, model_id) ==
    add_annotation(
        individual(
            with_model(request("individual", "add-annotation", fresh(3)),
                       model_id),
            StrOf(target_identifier)),
        "evidence", Str(individual_id(ev_ind_req(evidence_id, model_id))))

\* A variant of ed_ann_req that takes the ends of the fact the other way
\* round.
ed_ann_req_reversed(evidence_id, target_identifier, model_id) ==
    LET t == target_identifier
    IN  add_annotation(
            fact(with_model(request("edge", "add-annotation", fresh(3)),
                            model_id),
                 Index(t, 1), Index(t, 0), Index(t, 2)),
            "evidence", Str(individual_id(ev_ind_req(evidence_id, model_id))))

\* add_evidence: the annotation of a target fact with the evidence.
ed_ann_req(evidence_id, target_identifier, model_id) ==
    LET t == target_identifier
    IN  add_annotation(
            fact(with_model(request("edge", "add-annotation", fresh(3)),
                            model_id),
                 Index(t, 0), Index(t, 1), Index(t, 2)),
            "evidence", Str(individual_id(ev_ind_req(evidence_id, model_id))))

\* A variant of add_evidence_requests that leaves the annotation of the
\* evidence individual out when the target is an individual.
add_evidence_requests_short(evidence_id, source_ids, target_identifier, model_id) ==
    LET r1 == ev_ind_req(evidence_id, model_id)
        r2 == ev_ind_ann_req(evidence_id, source_ids, model_id)
    IN  IF ~ (Given(evidence_id) /\ truthy(source_ids)) THEN <<>>
        ELSE IF add_annotation_throws(source_ids) THEN <<r1>>
        ELSE IF ~ truthy(target_identifier) THEN <<r1, r2>>
        ELSE IF what_is(target_identifier) = "string"
             THEN <<r1, ind_ann_req(evidence_id, target_identifier, model_id)>>
        ELSE IF ~ _ensure_fact(target_identifier) THEN <<r1, r2>>
        ELSE <<r1, r2, ed_ann_req(evidence_id, target_identifier, model_id)>>

\* The requests add_evidence has added when it returns or throws.
add_evidence_requests(evidence_id, source_ids, target_identifier, model_id) ==
    LET r1 == ev_ind_req(evidence_id, model_id)
        r2 == ev_ind_ann_req(evidence_id, source_ids, model_id)
    IN  IF ~ (Given(evidence_id) /\ truthy(source_ids)) THEN <<>>
        ELSE IF add_annotation_throws(source_ids) THEN <<r1>>
        ELSE IF ~ truthy(target_identifier) THEN <<r1, r2>>
        ELSE IF what_is(target_identifier) = "string"
             THEN <<r1, r2,
                    ind_ann_req(evidence_id, target_identifier, model_id)>>
        ELSE IF ~ _ensure_fact(target_identifier) THEN <<r1, r2>>
        ELSE <<r1, r2, ed_ann_req(evidence_id, target_identifier, model_id)>>

\* A variant of add_evidence_throws that takes any string for a target.
add_evidence_throws_any_string(evidence_id, source_ids, target_identifier) ==
    /\ Given(evidence_id) /\ truthy(source_ids)
    /\ \/ add_annotation_throws(source_ids)
       \/ /\ what_is(target_identifier) /= "string"
          /\ ~ _ensure_fact(target_identifier)

\* Whether add_evidence throws.
add_evidence_throws(evidence_id, source_ids, target_identifier) ==
    /\ Given(evidence_id) /\ truthy(source_ids)
    /\ \/ add_annotation_throws(source_ids)
       \/ ~ truthy(target_identifier)
       \/ /\ what_is(target_identifier) /= "string"
          /\ ~ _ensure_fact(target_identifier)

\* add_evidence, run for the call name(args).
add_evidence_for(name, args, evidence_id, source_ids, target_identifier, model_id) ==
    /\ Push(add_evidence_requests(evidence_id, source_ids, target_identifier,
                                  model_id),
            "action")
    /\ IF add_evidence_throws(evidence_id, source_ids, target_identifier)
       THEN Return(name, args, "error", Thrown)
       ELSE Return(name, args, "ok", Anchor)

add_evidence(evidence_id, source_ids, target_identifier, model_id) ==
    add_evidence_for("add_evidence",
                     <<evidence_id, source_ids, target_identifier, model_id>>,
                     evidence_id, source_ids, target_identifier, model_id)

\* A variant of remove_evidence that gives remove_individual no model id.
remove_evidence_no_model(evidence_individual_id, model_id) ==
    LET args == <<evidence_individual_id, model_id>>
    IN  IF Given(evidence_individual_id)
        THEN remove_individual_for("remove_evidence", args,
                                   evidence_individual_id, Null)
        ELSE /\ Push(<<>>, "action")
             /\ Return("remove_evidence", args, "ok", Anchor)

remove_evidence(evidence_individual_id, model_id) ==
    LET args == <<evidence_individual_id, model_id>>
    IN  IF Given(evidence_individual_id)
        THEN remove_individual_for("remove_evidence", args,
                                   evidence_individual_id, model_id)
        ELSE /\ Push(<<>>, "action")
             /\ Return("remove_evidence", args, "ok", Anchor)

\* A variant of add_evidence_to_last_individual that looks one individual
\* further back.
add_evidence_to_individual_before(evidence_id, source_ids, model_id) ==
    LET args == <<evidence_id, source_ids, model_id>>
        tmp_indv == last_individual_id(_requests, heap, 1)
    IN  IF Given(tmp_indv)
        THEN add_evidence_for("add_evidence_to_last_individual", args,
                              evidence_id, source_ids, Str(tmp_indv),
                              model_id)
        ELSE /\ Push(<<>>, "action")
             /\ Return("add_evidence_to_last_individual", args, "ok", Anchor)

add_evidence_to_last_individual(evidence_id, source_ids, model_id) ==
    LET args == <<evidence_id, source_ids, model_id>>
        tmp_indv == last_individual_id(_requests, heap, 0)
    IN  IF Given(tmp_indv)
        THEN add_evidence_for("add_evidence_to_last_individual", args,
                              evidence_id, source_ids, Str(tmp_indv),
                              model_id)
        ELSE /\ Push(<<>>, "action")
             /\ Return("add_evidence_to_last_individual", args, "ok", Anchor)

\* A variant of add_evidence_to_last_fact that takes the fact before the
\* last one.
add_evidence_to_fact_before(evidence_id, source_ids, model_id) ==
    LET args == <<evidence_id, source_ids, model_id>>
        tmp_triple == last_fact_triple(_requests, heap, 1)
    IN  IF truthy(tmp_triple)
        THEN add_evidence_for("add_evidence_to_last_fact", args, evidence_id,
                              source_ids, tmp_triple, model_id)
        ELSE /\ Push(<<>>, "action")
             /\ Return("add_evidence_to_last_fact", args, "ok", Anchor)

add_evidence_to_last_fact(evidence_id, source_ids, model_id) ==
    LET args == <<evidence_id, source_ids, model_id>>
        tmp_triple == last_fact_triple(_requests, heap, 0)
    IN  IF truthy(tmp_triple)
        THEN add_evidence_for("add_evidence_to_last_fact", args, evidence_id,
                              source_ids, tmp_triple, model_id)
        ELSE /\ Push(<<>>, "action")
             /\ Return("add_evidence_to_last_fact", args, "ok", Anchor)

\* A variant of _op_annotation_to_target_throws that takes any target.
_op_annotation_to_target_throws_any_target(op, target, target_identifier, key, value) ==
    \/ ~ (op = "add" \/ op = "remove")
    \/ target = "edge" /\ ~ _ensure_fact(target_identifier)
    \/ /\ Given(key) /\ truthy(value)
       /\ add_annotation_throws(value)

\* Whether _op_annotation_to_target throws (target_identifier: an id for an
\* individual, a triple for an edge).
_op_annotation_to_target_throws(op, target, target_identifier, key, value) ==
    \/ ~ (op = "add" \/ op = "remove")
    \/ target \notin {"model", "individual", "edge"}
    \/ target = "edge" /\ ~ _ensure_fact(target_identifier)
    \/ /\ Given(key) /\ truthy(value)
       /\ add_annotation_throws(value)

\* The request _op_annotation_to_target builds, when it does not throw.
annotation_req(op, target, target_identifier, key, value, model_id) ==
    LET req == with_model(request(target, op \o "-annotation", fresh(1)),
                          model_id)
        t == target_identifier
        identified ==
            IF target = "individual" THEN individual(req, t)
            ELSE IF target = "edge"
                 THEN fact(req, Index(t, 0), Index(t, 1), Index(t, 2))
            ELSE req
    IN  add_annotation(identified, key, value)

\* _op_annotation_to_target, run for the call name(args).
_op_annotation_to_target(name, args, op, target, target_identifier, key, value, model_id) ==
    IF _op_annotation_to_target_throws(op, target, target_identifier, key,
                                       value)
    THEN Throw(name, args)
    ELSE IF Given(key) /\ truthy(value)
         THEN /\ Push(<<annotation_req(op, target, target_identifier, key,
                                       value, model_id)>>,
                      "action")
              /\ Return(name, args, "ok", Anchor)
         ELSE Push(<<>>, "action") /\ Return(name, args, "ok", Anchor)

add_annotation_to_model(key, value, model_id) ==
    _op_annotation_to_target("add_annotation_to_model",
                             <<key, value, model_id>>,
                             "add", "model", JsNull, key, value, model_id)

remove_annotation_from_model(key, value, model_id) ==
    _op_annotation_to_target("remove_annotation_from_model",
                             <<key, value, model_id>>,
                             "remove", "model", JsNull, key, value, model_id)

add_annotation_to_individual(key, value, individual_id_, model_id) ==
    _op_annotation_to_target("add_annotation_to_individual",
                             <<key, value, individual_id_, model_id>>,
                             "add", "individual", individual_id_, key, value,
                             model_id)

remove_annotation_from_individual(key, value, individual_id_, model_id) ==
    _op_annotation_to_target("remove_annotation_from_individual",
                             <<key, value, individual_id_, model_id>>,
                             "remove", "individual", individual_id_, key,
                             value, model_id)

add_annotation_to_fact(key, value, triple, model_id) ==
    LET args == <<key, value, triple, model_id>>
    IN  IF _ensure_fact(triple)
        THEN _op_annotation_to_target("add_annotation_to_fact", args, "add",
                                      "edge", triple, key, value, model_id)
        ELSE Throw("add_annotation_to_fact", args)

remove_annotation_from_fact(key, value, triple, model_id) ==
    LET args == <<key, value, triple, model_id>>
    IN  IF _ensure_fact(triple)
        THEN _op_annotation_to_target("remove_annotation_from_fact", args,
                                      "remove", "edge", triple, key, value,
                                      model_id)
        ELSE Throw("remove_annotation_from_fact", args)

\* The calls that add one model request: its operation, with add's hint.
model_call(name, operation, model_id, intention) ==
    /\ Push(<<with_model(request("model", operation, fresh(1)), model_id)>>,
            intention)
    /\ Return(name, <<model_id>>, "ok", Anchor)

undo_last_model_batch(model_id) ==
    model_call("undo_last_model_batch", "undo", model_id, "action")

redo_last_model_batch(model_id) ==
    model_call("redo_last_model_batch", "redo", model_id, "action")

get_meta ==
    /\ Push(<<request("meta", "get", fresh(1))>>, "query")
    /\ Return("get_meta", <<>>, "ok", Anchor)

get_model(model_id) == model_call("get_model", "get", model_id, "query")

get_undo_redo(model_id) ==
    model_call("get_undo_redo", "get-undo-redo", model_id, "query")

\* add_model(argument_hash), cls_id and tax_id being what it reads from the
\* hash (Null when the hash, or the key, is missing).
add_model(cls_id, tax_id) ==
    LET model_req ==
            special(special(request("model", "add", fresh(1)),
                            "class-id", cls_id),
                    "taxon-id", tax_id)
    IN  /\ Push(<<model_req>>, "action")
        /\ Return("add_model", <<cls_id, tax_id>>, "ok", Anchor)

\* A variant of store_model that adds its request as an action.
store_model_as_action(model_id) ==
    model_call("store_model", "store", model_id, "action")

store_model(model_id) ==
    model_call("store_model", "store", model_id, "query")

\* A variant of structured that gives every request the default model id.
structured_overwriting(r) ==
    objectified(IF Given(_model_id) THEN model(r, _model_id) ELSE r)

\* The request r after structure() has gone over it.
structured(r) ==
    objectified(IF ~ Given(_get(r, "model-id")) /\ Given(_model_id)
                THEN model(r, _model_id)
                ELSE r)

\* A variant of structure_heap that goes over every request there is, in
\* the batch or not.
structure_heap_all == [a \in DOMAIN heap |-> structured(heap[a])]

\* The heap after structure().
structure_heap ==
    [a \in DOMAIN heap |->
        IF \E i \in 1..Len(_requests) : _requests[i] = a
        THEN structured(heap[a])
        ELSE heap[a]]

\* A variant of structure_rset that takes each entry from the request as it
\* is before the default model id is filled in.
structure_rset_early ==
    [ token |-> _user_token,
      intention |-> _intention,
      requests |-> [i \in 1..Len(_requests) |->
                       objectify(heap[_requests[i]])] ]

\* What structure() returns: the arguments of each entry are the request's
\* own _arguments object.
structure_rset ==
    [ token |-> _user_token,
      intention |-> _intention,
      requests |-> [i \in 1..Len(_requests) |->
                       objectify(structure_heap[_requests[i]])] ]

structure ==
    /\ heap' = structure_heap
    /\ UNCHANGED unstructured
    /\ Return("structure", <<>>, "ok", structure_rset)
    /\ UNCHANGED <<held, _requests, _intention, _model_id, _user_token, hints,
                   variables, other>>

\* The text JSON.stringify and encodeURIComponent give is kept as the
\* sequence of its pieces: each mark of the syntax, and each string of the
\* data, whole.

RECURSIVE Joined(_)
\* The pieces of the members parts, a comma between two.
Joined(parts) ==
    IF parts = <<>> THEN <<>>
    ELSE IF Len(parts) = 1 THEN parts[1]
    ELSE parts[1] \o <<",">> \o Joined(Tail(parts))

\* JSON.stringify of a string (none of the strings passed holds a character
\* JSON escapes), and of null.
JsonString(str) == IF str = Null THEN <<"null">> ELSE <<"\"", str, "\"">>

\* JSON.stringify of an array, parts being the texts of its elements.
JsonArray(parts) == <<"[">> \o Joined(parts) \o <<"]">>

\* JSON.stringify of an object, members being its <<key, text of value>>.
JsonObject(members) ==
    <<"{">>
    \o Joined([i \in 1..Len(members) |->
                  JsonString(members[i][1]) \o <<":">> \o members[i][2]])
    \o <<"}">>

\* The keys a request's arguments can hold, in the order they are written.
ArgumentKeys ==
    << "individual", "subject", "object", "predicate", "model-id", "class-id",
       "taxon-id", "expressions", "values", "assign-to-variable" >>

\* JSON.stringify of the argument key of the arguments object arguments.
JsonArgument(arguments, key) ==
    LET val == arguments[key]
    IN  IF key = "expressions"
        THEN JsonArray([i \in 1..Len(val) |-> JsonString(val[i])])
        ELSE IF key = "values"
        THEN JsonArray([i \in 1..Len(val) |->
                 JsonObject(<< <<"key", JsonString(val[i].key)>>,
                               <<"value", JsonString(val[i].value)>> >>)])
        ELSE JsonString(val)

\* JSON.stringify(reqs), reqs being what structure() gives as requests.
JSON_stringify(reqs) ==
    JsonArray([i \in 1..Len(reqs) |->
        LET keys == SelectSeq(ArgumentKeys,
                              LAMBDA k : k \in DOMAIN reqs[i].arguments)
        IN  JsonObject(<<
                <<"entity", JsonString(reqs[i].entity)>>,
                <<"operation", JsonString(reqs[i].operation)>>,
                <<"arguments",
                  JsonObject([j \in 1..Len(keys) |->
                      <<keys[j], JsonArgument(reqs[i].arguments, keys[j])>>])>>
            >>)])

\* encodeURIComponent of one piece: the marks of JSON and the colon are
\* escaped; letters, digits, '-' and '_' are kept.
encodeURIPiece(piece) ==
    CASE piece = "\"" -> "%22"
      [] piece = "{" -> "%7B"
      [] piece = "}" -> "%7D"
      [] piece = "[" -> "%5B"
      [] piece = "]" -> "%5D"
      [] piece = ":" -> "%3A"
      [] piece = "," -> "%2C"
      [] piece = "GO:0008150" -> "GO%3A0008150"
      [] piece = "ECO:0000000" -> "ECO%3A0000000"
      [] piece = "PMID:123" -> "PMID%3A123"
      [] piece = "PMID:456" -> "PMID%3A456"
      [] piece = "NCBITaxon:9606" -> "NCBITaxon%3A9606"
      [] OTHER -> piece

\* encodeURIComponent(str)
encodeURIComponent(str) == [i \in 1..Len(str) |-> encodeURIPiece(str[i])]

\* A variant of callable that writes the requests as they are, without
\* structure() going over them first.
callable_unstructured ==
    /\ UNCHANGED <<heap, unstructured>>
    /\ Return("callable", <<>>, "ok",
              [ token |-> _user_token,
                intention |-> _intention,
                requests |-> encodeURIComponent(JSON_stringify(
                    [i \in 1..Len(_requests) |->
                        [ entity |-> heap[_requests[i]]._entity,
                          operation |-> heap[_requests[i]]._operation,
                          arguments |-> heap[_requests[i]]._arguments ]])) ])
    /\ UNCHANGED <<held, _requests, _intention, _model_id, _user_token, hints,
                   variables, other>>

callable ==
    /\ heap' = structure_heap
    /\ UNCHANGED unstructured
    /\ Return("callable", <<>>, "ok",
              [structure_rset EXCEPT
                  !.requests = encodeURIComponent(JSON_stringify(@))])
    /\ UNCHANGED <<held, _requests, _intention, _model_id, _user_token, hints,
                   variables, other>>

\* The caller asks last_individual_id(number_to_skip).
call_last_individual_id(number_to_skip) ==
    /\ Return("last_individual_id", <<number_to_skip>>, "ok",
              last_individual_id(_requests, heap, number_to_skip))
    /\ UNCHANGED <<heap, unstructured, held, _requests, _intention,
                   _model_id, _user_token,
                   hints, variables, other>>

\* The caller asks last_fact_triple(number_to_skip).
call_last_fact_triple(number_to_skip) ==
    /\ Return("last_fact_triple", <<number_to_skip>>, "ok",
              last_fact_triple(_requests, heap, number_to_skip))
    /\ UNCHANGED <<heap, unstructured, held, _requests, _intention,
                   _model_id, _user_token,
                   hints, variables, other>>

---------------------------------------------------------------------------
(* The caller's own requests.                                              *)

\* new request(entity, operation)
new_request(entity_, operation) ==
    /\ Cardinality(held) < MaxHeld
    /\ heap' = Append(heap, request(entity_, operation, fresh(1)))
    /\ unstructured' = Append(unstructured,
                              request(entity_, operation, fresh(1)))
    /\ held' = held \cup {Len(heap) + 1}
    /\ Return("new request", <<entity_, operation>>, "ok", Len(heap) + 1)
    /\ UNCHANGED <<_requests, _intention, _model_id, _user_token, hints,
                   variables, other>>

\* req.individual(ind_id) on a request the caller holds.
request_individual(req, ind_id) ==
    /\ req \in held
    /\ heap' = [heap EXCEPT ![req] = individual(@, ind_id)]
    /\ unstructured' = [unstructured EXCEPT ![req] = individual(@, ind_id)]
    /\ Return("request.individual", <<req, ind_id>>, "ok",
              individual_id(heap'[req]))
    /\ UNCHANGED <<held, _requests, _intention, _model_id, _user_token, hints,
                   variables, other>>

\* req.fact(sub, obj, pred) on a request the caller holds; subject(sub),
\* object(obj) and predicate(pred) are the calls with one field given.
request_fact(req, sub, obj, pred) ==
    /\ req \in held
    /\ heap' = [heap EXCEPT ![req] = fact(@, sub, obj, pred)]
    /\ unstructured' = [unstructured EXCEPT ![req] = fact(@, sub, obj, pred)]
    /\ Return("request.fact", <<req, sub, obj, pred>>, "ok", Null)
    /\ UNCHANGED <<held, _requests, _intention, _model_id, _user_token, hints,
                   variables, other>>

\* The annotation pairs of the request r.
annotations(r) == _get(r, "values")

\* req.add_annotation(key, vals) on a request the caller holds: it returns
\* the number of pairs, or throws before it touches the request.
request_add_annotation(req, key, vals) ==
    /\ req \in held
    /\ IF add_annotation_throws(vals)
       THEN /\ UNCHANGED <<heap, unstructured>>
            /\ Return("request.add_annotation", <<req, key, vals>>, "error",
                      Thrown)
       ELSE /\ heap' = [heap EXCEPT ![req] = add_annotation(@, key, vals)]
            /\ unstructured' = [unstructured EXCEPT
                                    ![req] = add_annotation(@, key, vals)]
            /\ Return("request.add_annotation", <<req, key, vals>>, "ok",
                      Len(annotations(heap'[req])))
    /\ UNCHANGED <<held, _requests, _intention, _model_id, _user_token, hints,
                   variables, other>>

\* new request_variable(varvalue) by the caller.  The uuids of these
\* variables are counted downward, apart from those of the requests.
new_request_variable(varvalue) ==
    /\ Len(variables) < MaxVariables
    /\ variables' = Append(variables,
                           request_variable(varvalue,
                                            uuid(-(Len(variables) + 1))))
    /\ Return("new request_variable", <<varvalue>>, "ok", Len(variables) + 1)
    /\ UNCHANGED <<heap, unstructured, held, _requests, _intention,
                   _model_id, _user_token,
                   hints, other>>

\* v.value(value) on a variable the caller built.
variable_value(v, value) ==
    /\ v \in DOMAIN variables
    /\ variables' = [variables EXCEPT ![v] = _value(@, value)]
    /\ Return("request_variable.value", <<v, value>>, "ok", variables'[v]._var)
    /\ UNCHANGED <<heap, unstructured, held, _requests, _intention,
                   _model_id, _user_token,
                   hints, other>>

\* v.set_p() on a variable the caller built.
variable_set_p(v) ==
    /\ v \in DOMAIN variables
    /\ Return("request_variable.set_p", <<v>>, "ok", set_p(variables[v]))
    /\ UNCHANGED <<heap, unstructured, held, _requests, _intention,
                   _model_id, _user_token,
                   hints, variables, other>>

\* new request_set(user_token, model_id): the caller builds a second
\* request set, and goes on calling the one it was calling.
new_request_set(user_token, model_id) ==
    /\ other = <<>>
    /\ other' = Append(other, [ _user_token |-> user_token,
                                _model_id |-> model_id,
                                _requests |-> <<>>,
                                _intention |-> "query",
                                hints |-> <<>> ])
    /\ Return("new request_set", <<user_token, model_id>>, "ok", Anchor)
    /\ UNCHANGED <<heap, unstructured, held, _requests, _intention,
                   _model_id, _user_token,
                   hints, variables>>

\* The caller turns to the other request set (the k-th of those it is not
\* calling): its next calls are on that one.
turn(k) ==
    /\ k \in DOMAIN other
    /\ other' = [other EXCEPT ![k] = [ _user_token |-> _user_token,
                                       _model_id |-> _model_id,
                                       _requests |-> _requests,
                                       _intention |-> _intention,
                                       hints |-> hints ]]
    /\ _user_token' = other[k]._user_token
    /\ _model_id' = other[k]._model_id
    /\ _requests' = other[k]._requests
    /\ _intention' = other[k]._intention
    /\ hints' = other[k].hints
    /\ Return("turn", <<k>>, "ok", Anchor)
    /\ UNCHANGED <<heap, unstructured, held, variables>>

---------------------------------------------------------------------------
(* What the caller passes.                                                 *)

ClassExprs == {Null, "GO:0008150"}
EvidenceIds == {Null, "ECO:0000000"}
ModelIds == {Null, "m1"}
Keys == {Null, "comment"}
Values == {JsNull, Str("v1"), Num(7)}
GoodSourceIds == {Str("PMID:123"), Arr(<<"PMID:123", "PMID:456">>), Arr(<<>>)}
SourceIds == {JsNull, Str("PMID:123"), Num(7)}
Intentions == {Null, "action", "query", "other"}

\* An id the last call returned can be passed on.
ReturnedIds ==
    IF last.op \in {"add_individual", "last_individual_id"} /\ Given(last.ret)
    THEN {last.ret}
    ELSE {}

IndividualIds == {Null, "i1"} \cup ReturnedIds

Fact1 == Arr(<<"i1", "i2", "part_of">>)
Fact2 == Arr(<<"i2", "i1", "part_of">>)
\* More than three fields: the code reads the first three.
LongTriple == Arr(<<"i2", "i3", "part_of", "extra">>)
BadTriples == {JsNull, Num(7), Arr(<<"i1", Null, "part_of">>),
               Arr(<<Null, "i2", "part_of">>), Arr(<<"i1", "i2", Null>>),
               Arr(<<"i1", "i2">>)}
Triples == {Fact1, LongTriple} \cup BadTriples

NoTargets == {JsNull, Str("")}
GoodTargets == {Str(i) : i \in {"i1"} \cup ReturnedIds} \cup {Fact1, LongTriple}
Targets == NoTargets \cup GoodTargets \cup BadTriples

\* The arguments of add_evidence: every well-formed call; every evidence
\* id, source ids and model id with a missing target; every target with a
\* missing evidence id and with well-formed evidence and source ids.
AddEvidenceArgs ==
    ({"ECO:0000000"} \X GoodSourceIds \X GoodTargets \X {Null})
    \cup ({"ECO:0000000"} \X {Str("PMID:123")} \X GoodTargets \X {"m1"})
    \cup (EvidenceIds \X SourceIds \X NoTargets \X ModelIds)
    \cup (EvidenceIds \X {Str("PMID:123")} \X Targets \X {Null})
    \cup ({"ECO:0000000"} \X {Num(7)} \X {Str("i1"), Fact1} \X {Null})

\* The arguments of the annotation calls on an individual and on a fact.
AnnotationToIndividualArgs ==
    ({"comment"} \X {Str("v1")} \X IndividualIds \X ModelIds)
    \cup (Keys \X Values \X {"i1"} \X {Null})
AnnotationToFactArgs ==
    ({"comment"} \X {Str("v1")} \X Triples \X {Null})
    \cup (Keys \X Values \X {Fact1} \X {Null})

NewRequests == {<<"individual", "add">>, <<"edge", "add">>}

---------------------------------------------------------------------------
(* The specification: every macro with every kind of argument, on a batch  *)
(* of fewer than MaxReqs requests.                                         *)

\* An appending call is made while the batch holds fewer than limit requests.
Room(limit) == Len(_requests) < limit

Init ==
    /\ heap = <<>>
    /\ unstructured = <<>>
    /\ held = {}
    /\ _requests = <<>>
    /\ _intention = "query"
    /\ _model_id \in {Null, "mid"}
    /\ _user_token = "utoken"
    /\ last = [op |-> "new request_set", args |-> <<"utoken", _model_id>>,
               outcome |-> "ok", ret |-> Anchor, before |-> Before]
    /\ made = [id |-> Null, at |-> 0]
    /\ hints = <<>>
    /\ variables = <<>>
    /\ other = <<>>

Appending ==
    \/ Room(MaxReqs) /\ \E c \in ClassExprs, m \in ModelIds :
           add_individual(c, m)
    \/ Room(MaxReqs) /\ \E i \in IndividualIds, m \in ModelIds :
           remove_individual(i, m)
    \/ Room(MaxReqs) /\ \E c \in ClassExprs, i \in IndividualIds :
           add_type_to_individual(c, i, Null)
    \/ Room(MaxReqs) /\ \E c \in ClassExprs, i \in IndividualIds :
           remove_type_from_individual(c, i, Null)
    \/ Room(MaxReqs) /\ \E t \in Triples : add_fact(t, Null)
    \/ Room(MaxReqs) /\ add_fact(Fact1, "m1")
    \/ Room(MaxReqs) /\ \E t \in Triples : remove_fact(t, Null)
    \/ Room(MaxReqs) /\ \E a \in AddEvidenceArgs :
           add_evidence(a[1], a[2], a[3], a[4])
    \/ Room(MaxReqs) /\ \E i \in IndividualIds, m \in ModelIds :
           remove_evidence(i, m)
    \/ Room(MaxReqs) /\ \E e \in EvidenceIds, s \in SourceIds :
           add_evidence_to_last_individual(e, s, Null)
    \/ Room(MaxReqs) /\ \E e \in EvidenceIds, s \in SourceIds :
           add_evidence_to_last_fact(e, s, Null)
    \/ Room(MaxReqs) /\ \E k \in Keys, v \in Values :
           add_annotation_to_model(k, v, Null)
    \/ Room(MaxReqs) /\ \E k \in Keys, v \in Values :
           remove_annotation_from_model(k, v, Null)
    \/ Room(MaxReqs) /\ \E a \in AnnotationToIndividualArgs :
           add_annotation_to_individual(a[1], a[2], a[3], a[4])
    \/ Room(MaxReqs) /\ \E a \in AnnotationToIndividualArgs :
           remove_annotation_from_individual(a[1], a[2], a[3], a[4])
    \/ Room(MaxReqs) /\ \E a \in AnnotationToFactArgs :
           add_annotation_to_fact(a[1], a[2], a[3], a[4])
    \/ Room(MaxReqs) /\ \E a \in AnnotationToFactArgs :
           remove_annotation_from_fact(a[1], a[2], a[3], a[4])
    \/ Room(MaxReqs) /\ undo_last_model_batch(Null)
    \/ Room(MaxReqs) /\ redo_last_model_batch(Null)
    \/ Room(MaxReqs) /\ get_meta
    \/ Room(MaxReqs) /\ \E m \in ModelIds : get_model(m)
    \/ Room(MaxReqs) /\ get_undo_redo(Null)
    \/ Room(MaxReqs) /\ add_model(Null, Null)
    \/ Room(MaxReqs) /\ add_model("GO:0008150", "NCBITaxon:9606")
    \/ Room(MaxReqs) /\ \E m \in ModelIds : store_model(m)

Serializing ==
    \/ structure
    \/ callable

Reading ==
    \/ structure
    \/ \E n \in 0..MaxSkip : call_last_individual_id(n)
    \/ \E n \in 0..MaxSkip : call_last_fact_triple(n)

Next == Appending \/ Reading

Spec == Init /\ [][Next]_vars

---------------------------------------------------------------------------
(* The chained specification: a few macro calls, most with well-formed     *)
(* arguments, on a batch of fewer than MaxChain requests.                  *)

ChainAppending ==
    \/ Room(MaxChain) /\ add_individual("GO:0008150", Null)
    \/ Room(MaxChain) /\ remove_individual("i1", Null)
    \/ Room(MaxChain) /\ \E t \in {Fact1, Fact2, JsNull} : add_fact(t, Null)
    \/ Room(MaxChain) /\ get_meta
    \/ Room(MaxChain) /\ \E t \in {Str("i1"), Fact1} :
           add_evidence("ECO:0000000", Str("PMID:123"), t, Null)
    \/ Room(MaxChain) /\ \E s \in {JsNull, Str("PMID:123")} :
           add_evidence_to_last_individual("ECO:0000000", s, Null)
    \/ Room(MaxChain) /\ \E s \in SourceIds :
           add_evidence_to_last_fact("ECO:0000000", s, Null)

NextChain == ChainAppending \/ Reading

SpecChain == Init /\ [][NextChain]_vars

---------------------------------------------------------------------------
(* The specification of the primitive add: the caller builds requests of   *)
(* its own, adds them with and without a hint among a few macro calls,     *)
(* changes them after they were added, and serializes the batch; the batch *)
(* is below MaxAdd.                                                        *)

AddAppending ==
    \/ Room(MaxAdd) /\ \E req \in held, i \in {Null, "query"} : add(req, i)
    \/ Room(MaxAdd) /\ add_individual("GO:0008150", Null)
    \/ Room(MaxAdd) /\ get_meta

Building ==
    \/ \E nr \in NewRequests : new_request(nr[1], nr[2])
    \/ \E req \in held : request_individual(req, "i1")

NextAdd == AddAppending \/ Building \/ structure

SpecAdd == Init /\ [][NextAdd]_vars

---------------------------------------------------------------------------
(* The specification of the variables: the caller builds variables and    *)
(* requests of its own, and sets and reads their values.                   *)

\* The values the caller passes for a variable: none, the empty string, and
\* two ids.
VarValues == {Null, "", "i1", "i2"}

VariableCalls ==
    \/ \E value \in VarValues : new_request_variable(value)
    \/ \E v \in DOMAIN variables, value \in VarValues :
           variable_value(v, value)
    \/ \E v \in DOMAIN variables : variable_set_p(v)
    \/ new_request("individual", "add")
    \/ \E req \in held, value \in VarValues : request_individual(req, value)

NextVariable == VariableCalls

SpecVariable == Init /\ [][NextVariable]_vars

---------------------------------------------------------------------------
(* The specification of two request sets: the caller builds a request set  *)
(* beside the first and requests of its own, and calls add, a macro,       *)
(* structure() and callable() on the two sets in every order; each batch   *)
(* is below MaxShared.                                                     *)

SharedAppending ==
    \/ Room(MaxShared) /\ \E req \in held : add(req, Null)
    \/ Room(MaxShared) /\ add_individual("GO:0008150", Null)

SetBuilding ==
    \/ new_request_set("utoken2", "mid2")
    \/ \E k \in DOMAIN other : turn(k)
    \/ new_request("individual", "add")

NextSets == SharedAppending \/ SetBuilding \/ Serializing

SpecSets == Init /\ [][NextSets]_vars

---------------------------------------------------------------------------
(* The specification of the facts: the macros that build requests with a   *)
(* fact, requests the caller builds and gives a fact or a part of one, the *)
(* primitive add and the lookup of the last fact; the batch is below       *)
(* MaxFacts.                                                               *)

\* The fields the caller gives fact(): all three, or the subject alone.
FactFields == { <<"i1", "i2", "part_of">>, <<"i2", Null, Null>> }

FactAppending ==
    \/ Room(MaxFacts) /\ \E req \in held : add(req, Null)
    \/ Room(MaxFacts) /\ \E t \in {Fact1, Arr(<<"i1", Null, "part_of">>)} :
           add_fact(t, Null)
    \/ Room(MaxFacts) /\ add_annotation_to_fact("comment", Str("v1"), Fact2,
                                                 Null)
    \/ Room(MaxFacts) /\ add_evidence("ECO:0000000", Str("PMID:123"), Fact1,
                                       Null)

FactBuilding ==
    \/ new_request("edge", "add")
    \/ \E req \in held, f \in FactFields :
           request_fact(req, f[1], f[2], f[3])

FactReading == \E n \in {0, 1} : call_last_fact_triple(n)

NextFacts == FactAppending \/ FactBuilding \/ FactReading

SpecFacts == Init /\ [][NextFacts]_vars

---------------------------------------------------------------------------
(* The specification of the annotations of a request: the caller builds a  *)
(* request and adds annotations to it, with one value, with lists, and     *)
(* with what is neither; the request holds at most MaxPairs pairs.         *)

\* What the caller passes for the values of an annotation.
AnnotationValues ==
    { Str("v1"), Str(""), Arr(<<"v1", "v2">>), Arr(<<>>), Num(7), JsNull }

\* The number of pairs the request at req holds.
PairsOf(req) ==
    IF "values" \in DOMAIN heap[req]._arguments
    THEN Len(annotations(heap[req]))
    ELSE 0

AnnotationCalls ==
    \/ new_request("individual", "add-annotation")
    \/ \E req \in held, vals \in AnnotationValues :
           /\ PairsOf(req) + Len(vals.v) <= MaxPairs
           /\ request_add_annotation(req, "comment", vals)
    \/ \E req \in held :
           /\ PairsOf(req) < MaxPairs
           /\ request_add_annotation(req, "source", Str("v2"))

NextAnnotations == AnnotationCalls

SpecAnnotations == Init /\ [][NextAnnotations]_vars

---------------------------------------------------------------------------
(* The specification of the internal helpers: _op_annotation_to_target and *)
(* _op_type_to_individual called as the macros call them and with          *)
(* operations and targets the macros never pass; the batch is below        *)
(* MaxDirect.                                                              *)

Operations == {Null, "", "add", "remove", "replace"}
\* key and value of an annotation.
Pairs ==
    {<<"comment", Str("v1")>>, <<"comment", Arr(<<"v1", "v2">>)>>,
     <<"comment", Num(7)>>, <<"comment", JsNull>>, <<Null, Str("v1")>>}

\* _op_annotation_to_target called directly.
direct_op_annotation_to_target(op, target, target_identifier, key, value, model_id) ==
    _op_annotation_to_target(
        "_op_annotation_to_target",
        <<op, target, target_identifier, key, value, model_id>>,
        op, target, target_identifier, key, value, model_id)

\* _op_type_to_individual called directly.
direct_op_type_to_individual(op, class_expr, individual_id_, model_id) ==
    _op_type_to_individual(
        "_op_type_to_individual",
        <<op, class_expr, individual_id_, model_id>>,
        op, class_expr, individual_id_, model_id)

HelperAppending ==
    \/ Room(MaxDirect) /\ \E op \in Operations, p \in Pairs,
              target \in {Null, "model", "meta"} :
           direct_op_annotation_to_target(op, target, Null, p[1], p[2], Null)
    \/ Room(MaxDirect) /\ \E op \in Operations, p \in Pairs,
              i \in {Null, "i1"} :
           direct_op_annotation_to_target(op, "individual", i, p[1], p[2],
                                          Null)
    \/ Room(MaxDirect) /\ \E op \in Operations, p \in Pairs,
              t \in {Fact1, JsNull, Arr(<<"i1", Null, "part_of">>)} :
           direct_op_annotation_to_target(op, "edge", t, p[1], p[2], Null)
    \/ Room(MaxDirect) /\ \E op \in Operations, c \in ClassExprs,
              i \in {Null, "i1"}, m \in ModelIds :
           direct_op_type_to_individual(op, c, i, m)
    \/ Room(MaxDirect) /\ \E c \in ClassExprs, i \in {Null, "i1"} :
           add_type_to_individual(c, i, Null)
    \/ Room(MaxDirect) /\ \E c \in ClassExprs, i \in {Null, "i1"} :
           remove_type_from_individual(c, i, Null)

NextHelpers == HelperAppending \/ structure

SpecHelpers == Init /\ [][NextHelpers]_vars

---------------------------------------------------------------------------
(* The specification of the intention: requests added with every hint, the *)
(* macros that query and some that act, in every order, on a batch below   *)
(* MaxHinted.                                                              *)

IntentionAppending ==
    \/ Room(MaxHinted) /\ \E i \in Intentions :
           add_built("individual", "add", i)
    \/ Room(MaxHinted) /\ get_meta
    \/ Room(MaxHinted) /\ get_model(Null)
    \/ Room(MaxHinted) /\ get_undo_redo(Null)
    \/ Room(MaxHinted) /\ store_model(Null)
    \/ Room(MaxHinted) /\ add_individual("GO:0008150", Null)
    \/ Room(MaxHinted) /\ \E t \in {Fact1, JsNull} : add_fact(t, Null)
    \/ Room(MaxHinted) /\ undo_last_model_batch(Null)
    \/ Room(MaxHinted) /\ add_model(Null, Null)

NextIntention == IntentionAppending \/ Serializing

SpecIntention == Init /\ [][NextIntention]_vars

---------------------------------------------------------------------------
(* The specification of callable(): the macros that give each kind of     *)
(* request, with structure() and callable().                               *)

\* The calls that give each kind of request and of argument a text is
\* written for.
CallableAppending ==
    \/ Room(MaxWritten) /\ \E c \in ClassExprs, m \in ModelIds :
           add_individual(c, m)
    \/ Room(MaxWritten) /\ \E i \in IndividualIds : remove_individual(i, Null)
    \/ Room(MaxWritten) /\ add_type_to_individual("GO:0008150", "i1", Null)
    \/ Room(MaxWritten) /\ \E t \in {Fact1, LongTriple, JsNull} :
           add_fact(t, Null)
    \/ Room(MaxWritten) /\ \E s \in GoodSourceIds :
           add_evidence("ECO:0000000", s, Str("i1"), Null)
    \/ Room(MaxWritten) /\ \E s \in {Str("PMID:123"), Num(7)} :
           add_evidence("ECO:0000000", s, Fact1, Null)
    \/ Room(MaxWritten) /\ \E v \in Values :
           add_annotation_to_model("comment", v, Null)
    \/ Room(MaxWritten) /\
           add_annotation_to_individual("comment", Str("v1"), Null, Null)
    \/ Room(MaxWritten) /\ remove_annotation_from_fact("comment", Str("v1"),
                                                     Fact1, Null)
    \/ Room(MaxWritten) /\ get_meta
    \/ Room(MaxWritten) /\ add_model("GO:0008150", "NCBITaxon:9606")
    \/ Room(MaxWritten) /\ \E m \in ModelIds : store_model(m)

NextCallable == CallableAppending \/ Serializing

SpecCallable == Init /\ [][NextCallable]_vars

---------------------------------------------------------------------------
(* Properties.  `last` holds the last call and the batch as that call     *)
(* found it, so that what a call does is a predicate of the state it       *)
(* leaves.                                                                 *)

\* The requests the last call appended.
Appended == SubSeq(_requests, Len(last.before.requests) + 1, Len(_requests))

\* s is a prefix of t.
IsPrefix(s, t) == Len(s) <= Len(t) /\ SubSeq(t, 1, Len(s)) = s

\* The last call left the batch and its requests as it found them.
Untouched ==
    /\ _requests = last.before.requests
    /\ _intention = last.before.intention
    /\ heap = last.before.heap

\* The triple t is absent or lacks one of its three fields.
Incomplete(t) ==
    ~ (t.t = "array" /\ Len(t.v) >= 3 /\ \A i \in 1..3 : Given(t.v[i]))

\* The last call was given an evidence id and source ids, at places e and s
\* of its arguments.
EvidenceGiven(e, s) == Given(last.args[e]) /\ truthy(last.args[s])

\* C1: a new request set has the intention 'query', and in every step of
\* every sequence of add, macro, structure and callable calls an intention
\* that is 'action' stays 'action', whatever hint a later add is given.
IntentionMonotone ==
    /\ _intention = "query"
    /\ [][_intention = "action" => _intention' = "action"]_vars

\* C1, the case: add was called with the hint 'query' on a batch whose
\* intention was 'action'.
QueryHintAfterAction ==
    /\ last.op = "add"
    /\ last.args[2] = "query"
    /\ last.before.intention = "action"
    /\ _intention = "action"

\* C2: every call leaves the requests the batch held as a prefix of the
\* sequence, in the same order, and structure() gives as many entries as the
\* sequence holds, the i-th being the serialization (entity, operation,
\* arguments) of the i-th request appended.
AppendOnlyInOrder ==
    /\ IsPrefix(last.before.requests, _requests)
    /\ last.op = "structure" =>
          /\ Len(last.ret.requests) = Len(_requests)
          /\ \A i \in 1..Len(_requests) :
                LET entry == last.ret.requests[i]
                    req == heap[_requests[i]]
                IN  /\ entry.entity = req._entity
                    /\ entry.operation = req._operation
                    /\ entry.arguments = req._arguments

\* C2, the case: structure() on a batch that calls have appended requests
\* of different kinds to, one after the other.
SerializedInOrder ==
    /\ last.op = "structure"
    /\ Len(_requests) >= 3
    /\ last.ret.requests[1].entity /= last.ret.requests[2].entity
    /\ last.ret.requests[2].entity /= last.ret.requests[3].entity

\* C3: whenever structure() serializes a request of entity 'individual', the
\* entry holds 'assign-to-variable', equal to the request's individual id,
\* if that id was never set explicitly, and holds no 'assign-to-variable' if
\* it was.
ImplicitVariableBinding ==
    last.op = "structure" =>
        \A i \in 1..Len(_requests) :
            LET entry == last.ret.requests[i]
                req == heap[_requests[i]]
            IN  entry.entity = "individual" =>
                    IF set_p(req._individual_id)
                    THEN "assign-to-variable" \notin DOMAIN entry.arguments
                    ELSE /\ "assign-to-variable" \in DOMAIN entry.arguments
                         /\ entry.arguments["assign-to-variable"] =
                                individual_id(req)

\* C4: an add_evidence call that is given an evidence id and source ids and
\* returns has appended three requests: an individual/add with an implicit id
\* V and the evidence id as its type, which serializes with
\* assign-to-variable V; an individual/add-annotation on V with one 'source'
\* pair for each source id; an add-annotation with one 'evidence' pair of
\* value V, on the individual that the target names when it is a string and
\* on the edge of the triple's subject, object and predicate otherwise.
EvidenceComposite ==
    (last.op = "add_evidence" /\ last.outcome = "ok" /\ EvidenceGiven(1, 2))
    => /\ Len(Appended) = 3
       /\ LET r1 == heap[Appended[1]]
              r2 == heap[Appended[2]]
              r3 == heap[Appended[3]]
              V == r1._individual_id._var
              sources == last.args[2].v
              target == last.args[3]
          IN  /\ r1._entity = "individual" /\ r1._operation = "add"
              /\ ~ r1._individual_id._use_var_p
              /\ _get(r1, "individual") = Null
              /\ _get(r1, "expressions") = <<last.args[1]>>
              /\ _get(objectified(r1), "assign-to-variable") = V
              /\ r2._entity = "individual"
              /\ r2._operation = "add-annotation"
              /\ _get(r2, "individual") = V
              /\ _get(r2, "values") =
                    [i \in 1..Len(sources) |->
                        [key |-> "source", value |-> sources[i]]]
              /\ r3._operation = "add-annotation"
              /\ _get(r3, "values") = <<[key |-> "evidence", value |-> V]>>
              /\ IF target.t = "string"
                 THEN /\ r3._entity = "individual"
                      /\ _get(r3, "individual") = target.v[1]
                 ELSE /\ r3._entity = "edge"
                      /\ _get(r3, "subject") = target.v[1]
                      /\ _get(r3, "object") = target.v[2]
                      /\ _get(r3, "predicate") = target.v[3]

\* C4, the case: add_evidence with two source ids and a fact for a target
\* has returned.
EvidenceOnFactAdded ==
    /\ last.op = "add_evidence"
    /\ last.outcome = "ok"
    /\ last.args[1] = "ECO:0000000"
    /\ last.args[2] = Arr(<<"PMID:123", "PMID:456">>)
    /\ last.args[3] = Fact1
    /\ Len(Appended) = 3

\* The calls that end in add_evidence.
EvidenceCalls ==
    {"add_evidence", "add_evidence_to_last_individual",
     "add_evidence_to_last_fact"}

\* The last call was add_individual alone on an empty batch, and then
\* add_evidence_to_last_individual with an evidence id and source ids.
IndividualThenEvidence ==
    /\ last.op = "add_evidence_to_last_individual"
    /\ EvidenceGiven(1, 2)
    /\ Len(last.before.requests) = 1
    /\ made.at = 1

SingleRequestDue ==
    CASE last.op \in {"add_individual", "remove_individual"} ->
            Given(last.args[1])
      [] last.op = "add_fact" -> ~ Incomplete(last.args[1])
      [] OTHER -> TRUE

\* Whether the last call, one that ends in add_evidence, found a target.
EvidenceTargetFound ==
    CASE last.op = "add_evidence_to_last_individual" ->
            Given(last_individual_id(last.before.requests,
                                     last.before.heap, 0))
      [] last.op = "add_evidence_to_last_fact" ->
            truthy(last_fact_triple(last.before.requests,
                                    last.before.heap, 0))
      [] OTHER -> TRUE

NoIndividualSince(reqs, hp) ==
    /\ made.id /= Null
    /\ made.at <= Len(reqs)
    /\ \A i \in (made.at + 1)..Len(reqs) : hp[reqs[i]]._entity /= "individual"

\* The last call appended an 'evidence' annotation of the individual id.
EvidenceAnnotationOn(id) ==
    \E i \in 1..Len(Appended) :
        LET req == heap[Appended[i]]
        IN  /\ req._entity = "individual"
            /\ req._operation = "add-annotation"
            /\ _get(req, "individual") = id
            /\ "values" \in DOMAIN req._arguments
            /\ \E j \in 1..Len(req._arguments["values"]) :
                  req._arguments["values"][j].key = "evidence"

OfEntity(kind) == SelectSeq(_requests, LAMBDA a : heap[a]._entity = kind)

\* The individual id of the (n+1)-th request of entity 'individual' from the
\* end of the batch, null when there are fewer.
NthLastIndividual(n) ==
    LET inds == OfEntity("individual")
    IN  IF Len(inds) >= n + 1
        THEN heap[inds[Len(inds) - n]]._individual_id._var
        ELSE Null

\* C7: for every skip, last_individual_id(skip) is the individual id of the
\* (skip+1)-th request of entity 'individual' from the end of the batch,
\* requests of other kinds not counted, and null when the batch holds fewer;
\* the call leaves the request set as it found it.
LastIndividualIdCorrect ==
    /\ \A n \in 0..(MaxSkip + 1) :
          last_individual_id(_requests, heap, n) = NthLastIndividual(n)
    /\ last.op = "last_individual_id"
       => /\ last.ret = NthLastIndividual(last.args[1])
          /\ Untouched

\* C7, the case: last_individual_id(1) found the second individual from the
\* end, behind a request of another kind.
SecondLastIndividualFound ==
    /\ last.op = "last_individual_id"
    /\ last.args[1] = 1
    /\ last.ret /= Null
    /\ last.ret /= NthLastIndividual(0)
    /\ heap[_requests[Len(_requests)]]._entity /= "individual"

\* The (n+1)-th request of entity 'edge' from the end of the batch, as
\* [subject, object, predicate]; null when there are fewer.
NthLastFact(n) ==
    LET edges == OfEntity("edge")
    IN  IF Len(edges) >= n + 1
        THEN LET req == heap[edges[Len(edges) - n]]
             IN  Arr(<< _get(req, "subject"), _get(req, "object"),
                        _get(req, "predicate") >>)
        ELSE JsNull

\* C8: for every skip, last_fact_triple(skip) is [subject, object, predicate]
\* of the (skip+1)-th request of entity 'edge' from the end of the batch,
\* requests of other kinds not counted, and null when the batch holds fewer.
LastFactTripleCorrect ==
    /\ \A n \in 0..(MaxSkip + 1) :
          last_fact_triple(_requests, heap, n) = NthLastFact(n)
    /\ last.op = "last_fact_triple"
       => last.ret = NthLastFact(last.args[1])

\* C8, the case: last_fact_triple(1) found the second edge from the end,
\* another triple than the last, behind a request of another kind.
SecondLastFactFound ==
    /\ last.op = "last_fact_triple"
    /\ last.args[1] = 1
    /\ last.ret /= JsNull
    /\ last.ret /= NthLastFact(0)
    /\ heap[_requests[Len(_requests)]]._entity /= "edge"

\* The triple the last call was given, when it is one of the calls on a
\* fact.
TripleGiven ==
    IF last.op \in {"add_fact", "remove_fact"}
    THEN last.args[1]
    ELSE last.args[3]

\* C9: add_fact, remove_fact, add_annotation_to_fact and
\* remove_annotation_from_fact raise an error for every triple that is
\* absent or lacks one of its three fields; the call then has appended no
\* request and has left the intention as it was.
IncompleteTripleRefused ==
    (last.op \in {"add_fact", "remove_fact", "add_annotation_to_fact",
                  "remove_annotation_from_fact"}
        /\ Incomplete(TripleGiven))
    => /\ last.outcome = "error"
       /\ Untouched

\* C9, the case: add_annotation_to_fact was given ["i1", null, "part_of"].
MiddleFieldMissing ==
    /\ last.op = "add_annotation_to_fact"
    /\ last.args[3] = Arr(<<"i1", Null, "part_of">>)
    /\ last.outcome = "error"

\* The last call had no target, or one that is neither a string nor a triple
\* with its three fields.
NoProperTarget ==
    \/ ~ truthy(last.args[3])
    \/ what_is(last.args[3]) /= "string" /\ Incomplete(last.args[3])

\* C10 as stated: add_evidence raises an error whenever no target is given
\* or the target is neither a string nor a well-formed triple, for every
\* evidence id, source ids and model id.
TargetAlwaysRequired ==
    (last.op = "add_evidence" /\ NoProperTarget) => last.outcome = "error"

\* C10: add_evidence that is given an evidence id and source ids raises an
\* error whenever no target is given or the target is neither a string nor a
\* triple with its three fields, for every model id; given no evidence id or
\* no source ids it returns and leaves the batch as it was.
TargetRequiredWithEvidence ==
    (last.op = "add_evidence" /\ NoProperTarget)
    => IF EvidenceGiven(1, 2)
       THEN last.outcome = "error"
       ELSE last.outcome = "ok" /\ Untouched

\* C10, the case: add_evidence with an evidence id, a source id and a
\* triple of two fields has raised.
ShortTripleTargetRefused ==
    /\ last.op = "add_evidence"
    /\ EvidenceGiven(1, 2)
    /\ last.args[2] = Str("PMID:123")
    /\ last.args[3] = Arr(<<"i1", "i2">>)
    /\ last.outcome = "error"

\* C11: _op_annotation_to_target raises an error for every op other than
\* 'add' and 'remove', for every target other than 'model', 'individual' and
\* 'edge', and for an 'edge' target with a triple that lacks a field, and then
\* has appended nothing; for a valid op and target with a key and a value (a
\* string) it appends exactly one request of the target's entity and of
\* operation op + '-annotation' that carries the pair of key and value.  (A
\* list for a value gives one pair for each element, and a value that is
\* neither raises an error.)
AnnotationResolver ==
    last.op = "_op_annotation_to_target" =>
        LET op == last.args[1]
            target == last.args[2]
            key == last.args[4]
            value == last.args[5]
            refused ==
                \/ op \notin {"add", "remove"}
                \/ target \notin {"model", "individual", "edge"}
                \/ target = "edge" /\ Incomplete(last.args[3])
            req == heap[Appended[1]]
        IN  /\ refused => last.outcome = "error" /\ Untouched
            /\ (~ refused /\ Given(key) /\ truthy(value))
               => IF value.t \in {"string", "array"}
                  THEN /\ last.outcome = "ok"
                       /\ Len(Appended) = 1
                       /\ req._entity = target
                       /\ req._operation = op \o "-annotation"
                       /\ _get(req, "values") =
                             [i \in 1..Len(value.v) |->
                                 [key |-> key, value |-> value.v[i]]]
                  ELSE last.outcome = "error" /\ Untouched

\* C11, the case: _op_annotation_to_target('remove', 'edge', triple, key,
\* value) with a triple of three fields and a string value has returned.
EdgeAnnotationResolved ==
    /\ last.op = "_op_annotation_to_target"
    /\ last.args[1] = "remove"
    /\ last.args[2] = "edge"
    /\ last.args[5] = Str("v1")
    /\ last.outcome = "ok"
    /\ Len(Appended) = 1

\* The last call, of _op_type_to_individual, had every argument it needs.
TypeArgumentsGiven ==
    Given(last.args[1]) /\ Given(last.args[2]) /\ Given(last.args[3])

\* The last call appended one request, of operation op + '-type' on the
\* individual id with the class expression class_expr.
TypeRequestAppended(op, class_expr, id) ==
    /\ last.outcome = "ok"
    /\ Len(Appended) = 1
    /\ LET req == heap[Appended[1]]
       IN  /\ req._entity = "individual"
           /\ req._operation = op \o "-type"
           /\ _get(req, "individual") = id
           /\ individual_id(req) = id
           /\ _get(req, "expressions") = <<class_expr>>

\* What C12 says of 'add' and 'remove' with a class expression and an
\* individual id, directly and through the two macros.
TypeToggled ==
    /\ (last.op = "_op_type_to_individual"
            /\ last.args[1] \in {"add", "remove"}
            /\ Given(last.args[2]) /\ Given(last.args[3]))
       => TypeRequestAppended(last.args[1], last.args[2], last.args[3])
    /\ (last.op = "add_type_to_individual"
            /\ Given(last.args[1]) /\ Given(last.args[2]))
       => TypeRequestAppended("add", last.args[1], last.args[2])
    /\ (last.op = "remove_type_from_individual"
            /\ Given(last.args[1]) /\ Given(last.args[2]))
       => TypeRequestAppended("remove", last.args[1], last.args[2])

\* C12 as stated: _op_type_to_individual raises an error for every operation
\* string that is not 'add' or 'remove' and appends nothing; for 'add' and
\* 'remove' with a class expression and an individual id it appends one
\* request of operation add-type or remove-type on that id.
UnknownTypeOperationAlwaysRefused ==
    /\ (last.op = "_op_type_to_individual"
            /\ Given(last.args[1]) /\ last.args[1] \notin {"add", "remove"})
       => last.outcome = "error" /\ Untouched
    /\ TypeToggled

\* C12: _op_type_to_individual that is given an operation, a class expression
\* and an individual id raises an error for every operation that is not
\* 'add' or 'remove'; without one of the three it raises nothing; in both
\* cases it appends nothing.  For 'add' and 'remove' with a class expression
\* and an individual id it appends one request of operation add-type or
\* remove-type on that id.
UnknownTypeOperationRefused ==
    /\ (last.op = "_op_type_to_individual"
            /\ last.args[1] \notin {"add", "remove"})
       => /\ Untouched
          /\ last.outcome = IF TypeArgumentsGiven THEN "error" ELSE "ok"
    /\ TypeToggled

\* C12, the case: _op_type_to_individual('replace', class, id) has raised.
ReplaceTypeRefused ==
    /\ last.op = "_op_type_to_individual"
    /\ last.args[1] = "replace"
    /\ TypeArgumentsGiven
    /\ last.outcome = "error"

\* The calls that build requests and add them.
Macros ==
    {"add_individual", "remove_individual", "add_type_to_individual",
     "remove_type_from_individual", "add_fact", "remove_fact", "add_evidence",
     "remove_evidence", "add_evidence_to_last_individual",
     "add_evidence_to_last_fact", "add_annotation_to_model",
     "remove_annotation_from_model", "add_annotation_to_individual",
     "remove_annotation_from_individual", "add_annotation_to_fact",
     "remove_annotation_from_fact", "undo_last_model_batch",
     "redo_last_model_batch", "get_meta", "get_model", "get_undo_redo",
     "add_model", "store_model"}

\* The model id the last call, a macro, was given: its last argument, but
\* for get_meta and add_model, which take none.
ModelIdGiven ==
    IF last.op \in {"get_meta", "add_model"} \/ ~ Given(last.args[Len(last.args)])
    THEN Null
    ELSE last.args[Len(last.args)]

\* C13: a request that a macro appends reports through model() the model id
\* the macro was given and none when it was given none, whatever the default
\* of the request set; structure() gives each request that has no model id
\* the default of the request set as 'model-id', leaves the model id of a
\* request that has one, and adds no 'model-id' when the set has no default.
ModelIdBackFill ==
    /\ last.op \in Macros
       => \A i \in 1..Len(Appended) :
             _get(heap[Appended[i]], "model-id") = ModelIdGiven
    /\ last.op = "structure"
       => \A i \in 1..Len(_requests) :
             LET was == _get(last.before.heap[_requests[i]], "model-id")
                 arguments == last.ret.requests[i].arguments
             IN  IF Given(was)
                 THEN arguments["model-id"] = was
                 ELSE IF Given(_model_id)
                 THEN arguments["model-id"] = _model_id
                 ELSE "model-id" \notin DOMAIN arguments

\* C13, the case: structure() on a request set with a default model id and
\* a request that was appended with a model id of its own.
OwnModelIdKept ==
    /\ last.op = "structure"
    /\ _model_id = "mid"
    /\ Len(_requests) >= 1
    /\ _get(last.before.heap[_requests[1]], "model-id") = "m1"
    /\ last.ret.requests[1].arguments["model-id"] = "m1"

\* The macros that add their request with the hint 'query'.
QueryMacros == {"get_meta", "get_model", "get_undo_redo", "store_model"}

FoundOfEntity(kind) ==
    SelectSeq(last.before.requests,
              LAMBDA a : last.before.heap[a]._entity = kind)

\* The target the last call, one for the last individual or the last fact,
\* has to give add_evidence: what the backward lookup without skip gave on
\* the batch it found.
LookedUpTarget ==
    IF last.op = "add_evidence_to_last_individual"
    THEN LET inds == FoundOfEntity("individual")
         IN  Str(last.before.heap[inds[Len(inds)]]._individual_id._var)
    ELSE LET edges == FoundOfEntity("edge")
             req == last.before.heap[edges[Len(edges)]]
         IN  Arr(<< _get(req, "subject"), _get(req, "object"),
                    _get(req, "predicate") >>)

\* A request but for the ids generated in it: its entity and operation,
\* whether its id was given, and its arguments other than the individual
\* and the annotation values.
Shape(req) ==
    [ entity |-> req._entity,
      operation |-> req._operation,
      given |-> req._individual_id._use_var_p,
      keys |-> DOMAIN req._arguments,
      rest |-> [k \in DOMAIN req._arguments \ {"individual", "values"} |->
                   req._arguments[k]],
      pairs |-> IF "values" \in DOMAIN req._arguments
                THEN [i \in 1..Len(req._arguments["values"]) |->
                         req._arguments["values"][i].key]
                ELSE <<>> ]

\* C15: add_evidence_to_last_individual returns and leaves requests and
\* intention as they were when the batch holds no request of entity
\* 'individual', and add_evidence_to_last_fact when it holds none of entity
\* 'edge'; otherwise each does what add_evidence does with the same evidence
\* id, source ids and model id and the result of the lookup for a target: it
\* raises when add_evidence raises, adds as many requests, each of the same
\* entity, operation and arguments, the second on the id of the first, the
\* third on the target with the id of the first for 'evidence', and every
\* request is added as an action.
WrappersAsAddEvidence ==
    last.op \in {"add_evidence_to_last_individual",
                 "add_evidence_to_last_fact"}
    => IF FoundOfEntity(IF last.op = "add_evidence_to_last_individual"
                        THEN "individual" ELSE "edge") = <<>>
       THEN last.outcome = "ok" /\ Untouched
       ELSE LET target == LookedUpTarget
                expected == add_evidence_requests(last.args[1], last.args[2],
                                                  target, last.args[3])
                got == [i \in 1..Len(Appended) |-> heap[Appended[i]]]
            IN  /\ last.outcome =
                      IF add_evidence_throws(last.args[1], last.args[2],
                                             target)
                      THEN "error" ELSE "ok"
                /\ Len(got) = Len(expected)
                /\ \A i \in 1..Len(got) : Shape(got[i]) = Shape(expected[i])
                /\ Len(got) >= 2
                   => /\ _get(got[2], "individual") = individual_id(got[1])
                      /\ _get(got[2], "values") =
                            [i \in 1..Len(last.args[2].v) |->
                                [key |-> "source",
                                 value |-> last.args[2].v[i]]]
                /\ Len(got) = 3
                   => /\ _get(got[3], "values") =
                            <<[key |-> "evidence",
                               value |-> individual_id(got[1])]>>
                      /\ target.t = "string"
                         => _get(got[3], "individual") = target.v[1]
                /\ \A i \in (Len(last.before.requests) + 1)..Len(_requests) :
                      hints[i] = "action"
                /\ last.before.heap = SubSeq(heap, 1, Len(last.before.heap))

\* C15, the case: add_evidence_to_last_fact has added its three requests,
\* the last on the triple of the last edge of the batch, behind a request of
\* another kind.
EvidenceOnLastFact ==
    /\ last.op = "add_evidence_to_last_fact"
    /\ last.outcome = "ok"
    /\ Len(Appended) = 3
    /\ last.before.heap[last.before.requests[Len(last.before.requests)]]._entity
          /= "edge"
    /\ heap[Appended[3]]._entity = "edge"

\* decodeURIComponent of one piece of a text.
decodeURIPiece(piece) ==
    CASE piece = "%22" -> "\""
      [] piece = "%7B" -> "{"
      [] piece = "%7D" -> "}"
      [] piece = "%5B" -> "["
      [] piece = "%5D" -> "]"
      [] piece = "%3A" -> ":"
      [] piece = "%2C" -> ","
      [] piece = "GO%3A0008150" -> "GO:0008150"
      [] piece = "ECO%3A0000000" -> "ECO:0000000"
      [] piece = "PMID%3A123" -> "PMID:123"
      [] piece = "PMID%3A456" -> "PMID:456"
      [] piece = "NCBITaxon%3A9606" -> "NCBITaxon:9606"
      [] OTHER -> piece

\* decodeURIComponent(str)
decodeURIComponent(str) == [i \in 1..Len(str) |-> decodeURIPiece(str[i])]

RECURSIVE JsonValue(_, _)
RECURSIVE JsonElements(_, _)
RECURSIVE JsonMembers(_, _)

\* JSON.parse of the value that starts at piece at of text: the value, and
\* the place of the piece behind it.  A string is the piece between two
\* quotes, an array the sequence of its elements, an object the function
\* from its keys.
JsonValue(text, at) ==
    CASE text[at] = "null" -> [val |-> Null, next |-> at + 1]
      [] text[at] = "\"" -> [val |-> text[at + 1], next |-> at + 3]
      [] text[at] = "[" ->
            IF text[at + 1] = "]"
            THEN [val |-> <<>>, next |-> at + 2]
            ELSE JsonElements(text, at + 1)
      [] text[at] = "{" ->
            IF text[at + 1] = "}"
            THEN [val |-> [k \in {} |-> Null], next |-> at + 2]
            ELSE JsonMembers(text, at + 1)

\* The elements of an array from piece at up to its closing bracket.
JsonElements(text, at) ==
    LET first == JsonValue(text, at)
    IN  IF text[first.next] = ","
        THEN LET rest == JsonElements(text, first.next + 1)
             IN  [val |-> <<first.val>> \o rest.val, next |-> rest.next]
        ELSE [val |-> <<first.val>>, next |-> first.next + 1]

\* The members of an object from piece at up to its closing brace: at is
\* the quote that opens a key, the colon is three pieces on.
JsonMembers(text, at) ==
    LET key == text[at + 1]
        first == JsonValue(text, at + 4)
    IN  IF text[first.next] = ","
        THEN LET rest == JsonMembers(text, first.next + 1)
             IN  [val |-> [k \in {key} \cup DOMAIN rest.val |->
                              IF k \in DOMAIN rest.val THEN rest.val[k]
                              ELSE first.val],
                  next |-> rest.next]
        ELSE [val |-> [k \in {key} |-> first.val], next |-> first.next + 1]

\* JSON.parse(text)
JSON_parse(text) == JsonValue(text, 1).val

\* C16: what callable() returns has the token and the intention that
\* structure() returns, and its 'requests', URI-decoded and parsed as JSON,
\* are the requests structure() returns: as many, each with the same entity,
\* operation and arguments.
CallableRoundTrip ==
    last.op = "callable"
    => /\ last.ret.token = structure_rset.token
       /\ last.ret.intention = structure_rset.intention
       /\ DOMAIN last.ret = {"token", "intention", "requests"}
       /\ LET reqs == JSON_parse(decodeURIComponent(last.ret.requests))
          IN  /\ Len(reqs) = Len(structure_rset.requests)
              /\ \A i \in 1..Len(reqs) :
                    /\ DOMAIN reqs[i] = {"entity", "operation", "arguments"}
                    /\ reqs[i].entity = structure_rset.requests[i].entity
                    /\ reqs[i].operation = structure_rset.requests[i].operation
                    /\ reqs[i].arguments = structure_rset.requests[i].arguments

\* C16, the case: callable() has written a batch of three requests, with
\* annotations, an id to assign and the default model id filled in.
EvidenceBatchWritten ==
    /\ last.op = "callable"
    /\ Len(_requests) = 3
    /\ \E i \in 1..3 : "assign-to-variable" \in DOMAIN heap[_requests[i]]._arguments
    /\ \E i \in 1..3 : "values" \in DOMAIN heap[_requests[i]]._arguments
    /\ \A i \in 1..3 : _get(heap[_requests[i]], "model-id") = _model_id
    /\ Given(_model_id)

\* The call of the step sets variable v of the caller to a value: v.value(x)
\* with an x that is given and not empty.
SetsVariable(v) ==
    /\ last'.op = "request_variable.value"
    /\ last'.args[1] = v
    /\ Given(last'.args[2])

\* The call of the step sets the variable of request a: a.individual(x) with
\* an x that is given and not empty.
SetsIndividual(a) ==
    /\ last'.op = "request.individual"
    /\ last'.args[1] = a
    /\ Given(last'.args[2])

\* C17 as stated: once a variable was explicitly set, no step changes its
\* value.
ValueSetOnce ==
    [][ /\ \A v \in DOMAIN variables :
              set_p(variables[v]) => variables'[v]._var = variables[v]._var
        /\ \A a \in DOMAIN heap :
              set_p(heap[a]._individual_id)
              => heap'[a]._individual_id._var = heap[a]._individual_id._var
      ]_vars

\* C17: the value of a variable changes only by an explicit set, value(x) or
\* individual(x) with a non-empty x, and every explicit set, the first and
\* the later ones alike, makes x the value; after an explicit set the value
\* is not a generated one again.
ValueSetByExplicitSets ==
    [][ /\ \A v \in DOMAIN variables :
              /\ variables'[v]._var =
                    IF SetsVariable(v) THEN last'.args[2]
                    ELSE variables[v]._var
              /\ set_p(variables[v]) => set_p(variables'[v])
        /\ \A a \in DOMAIN heap :
              /\ heap'[a]._individual_id._var =
                    IF SetsIndividual(a) THEN last'.args[2]
                    ELSE heap[a]._individual_id._var
              /\ set_p(heap[a]._individual_id) => set_p(heap'[a]._individual_id)
      ]_vars

\* C17, the case: individual(x) was called on a request whose id had been
\* set to another value, and returned x.
IndividualSetAgain ==
    /\ last.op = "request.individual"
    /\ Given(last.args[2])
    /\ set_p(last.before.heap[last.args[1]]._individual_id)
    /\ last.before.heap[last.args[1]]._individual_id._var /= last.args[2]
    /\ last.ret = last.args[2]
    /\ individual_id(heap[last.args[1]]) = last.args[2]

\* C18: set_p is true exactly when the caller has given the variable a value
\* (a non-empty one: the code takes the empty string for no value): a new
\* variable is flagged when the constructor was given one, a new request's
\* variable is not, a step flags a variable when it is an explicit set with
\* a value, and leaves the flag as it is otherwise; value() without an
\* argument changes neither flag nor value and returns the value.
SetPExactlyWhenGiven ==
    [][ /\ \A v \in DOMAIN variables' :
              IF v \in DOMAIN variables
              THEN /\ set_p(variables'[v]) =
                         (set_p(variables[v]) \/ SetsVariable(v))
                   /\ (/\ last'.op = "request_variable.value"
                       /\ last'.args[1] = v
                       /\ ~ Given(last'.args[2]))
                      => /\ variables'[v] = variables[v]
                         /\ last'.ret = variables[v]._var
              ELSE /\ last'.op = "new request_variable"
                   /\ set_p(variables'[v]) = Given(last'.args[1])
                   /\ Given(last'.args[1])
                      => variables'[v]._var = last'.args[1]
        /\ \A a \in DOMAIN heap' :
              IF a \in DOMAIN heap
              THEN set_p(heap'[a]._individual_id) =
                      (set_p(heap[a]._individual_id) \/ SetsIndividual(a))
              ELSE ~ set_p(heap'[a]._individual_id)
        /\ last'.op = "request_variable.set_p"
           => last'.ret = set_p(variables[last'.args[1]])
      ]_vars

\* C18, the case: value() without an argument was called on a variable that
\* was flagged, and returned the value the caller had given.
ValueReadOfSetVariable ==
    /\ last.op = "request_variable.value"
    /\ ~ Given(last.args[2])
    /\ set_p(variables[last.args[1]])
    /\ last.ret \in {"i1", "i2"}
    /\ last.ret = variables[last.args[1]]._var

\* The ids the request req refers to: its individual, the ends and the
\* relation of its fact, and the values of its annotations.
RefersTo(req) ==
    {_get(req, k) : k \in {"individual", "subject", "object", "predicate"}}
    \cup (IF "values" \in DOMAIN req._arguments
          THEN {req._arguments["values"][i].value :
                   i \in 1..Len(req._arguments["values"])}
          ELSE {})
    \cup (IF set_p(req._individual_id) THEN {req._individual_id._var} ELSE {})

\* C19: two different requests of the batch whose ids were not set by the
\* caller have different generated ids; two different requests of the batch,
\* and of what structure() has written, never carry the same
\* 'assign-to-variable'; and a request of the batch refers to the generated
\* id of another only when that one is of entity 'individual' and was added
\* before it, the id being the one add_individual or the lookup returned.
PlaceholdersUnique ==
    \A i, j \in 1..Len(_requests) :
        _requests[i] /= _requests[j]
        => LET owner == heap[_requests[i]]
               req == heap[_requests[j]]
           IN  /\ (~ set_p(owner._individual_id) /\ ~ set_p(req._individual_id))
                  => owner._individual_id._var /= req._individual_id._var
               /\ ("assign-to-variable" \in DOMAIN owner._arguments
                   /\ "assign-to-variable" \in DOMAIN req._arguments)
                  => owner._arguments["assign-to-variable"]
                        /= req._arguments["assign-to-variable"]
               /\ (last.op = "structure"
                   /\ "assign-to-variable" \in DOMAIN last.ret.requests[i].arguments
                   /\ "assign-to-variable" \in DOMAIN last.ret.requests[j].arguments)
                  => last.ret.requests[i].arguments["assign-to-variable"]
                        /= last.ret.requests[j].arguments["assign-to-variable"]
               /\ (~ set_p(owner._individual_id)
                   /\ owner._individual_id._var \in RefersTo(req))
                  => owner._entity = "individual" /\ i < j

\* C19, the case: structure() has written a batch with two requests that
\* carry an 'assign-to-variable' and a third that refers to the id of the
\* second.
TwoPlaceholdersWritten ==
    /\ last.op = "structure"
    /\ \E i, j, k \in 1..Len(_requests) :
          /\ i < j /\ j < k
          /\ "assign-to-variable" \in DOMAIN heap[_requests[i]]._arguments
          /\ "assign-to-variable" \in DOMAIN heap[_requests[j]]._arguments
          /\ _get(heap[_requests[k]], "individual")
                = heap[_requests[j]]._arguments["assign-to-variable"]

\* What structure() of the request set rset returns when the requests are
\* as in h.
StructureOf(rset, h) ==
    [ token |-> rset._user_token,
      intention |-> rset._intention,
      requests |->
          [i \in 1..Len(rset._requests) |->
              LET req == h[rset._requests[i]]
              IN  objectify(IF ~ Given(_get(req, "model-id"))
                               /\ Given(rset._model_id)
                            THEN model(req, rset._model_id)
                            ELSE req)] ]

\* The requests of a batch.
Members(requests) == {requests[i] : i \in 1..Len(requests)}

\* The last call was one on the request set the caller is calling.
SetCalled ==
    last.op \notin {"new request_set", "turn", "new request",
                    "request.individual", "new request_variable",
                    "request_variable.value", "request_variable.set_p"}

\* C20 as stated: no request is in the batches of two request sets, and no
\* call on a request set changes what structure() of another returns.
Isolated ==
    \A k \in DOMAIN other :
        /\ Members(_requests) \cap Members(other[k]._requests) = {}
        /\ SetCalled
           => StructureOf(other[k], heap)
                 = StructureOf(other[k], last.before.heap)

\* C20: a request that is in the batches of two request sets is one the
\* caller built and passed to add of both; the requests the macros build
\* are in one batch only; and a call on a request set that shares no
\* request with another leaves what structure() of the other returns as it
\* was.
IsolatedUnlessAddedTwice ==
    \A k \in DOMAIN other :
        /\ Members(_requests) \cap Members(other[k]._requests) \subseteq held
        /\ (SetCalled
            /\ Members(_requests) \cap Members(other[k]._requests) = {})
           => StructureOf(other[k], heap)
                 = StructureOf(other[k], last.before.heap)

\* C20, the case: structure() of a request set with a default model id has
\* filled it into its requests while another request set holds requests of
\* its own, none of them shared.
OwnRequestsStructured ==
    /\ last.op = "structure"
    /\ Given(_model_id)
    /\ last.before.heap /= heap
    /\ \E k \in DOMAIN other :
          /\ other[k]._requests /= <<>>
          /\ Members(_requests) \cap Members(other[k]._requests) = {}

\* How many of subject, object and predicate the request req has.
FactFieldsSet(req) ==
    Cardinality({k \in {"subject", "object", "predicate"} :
                    Given(_get(req, k))})

\* The last call was last_fact_triple and found a fact: the address of the
\* request it took it from.
FactFoundAt ==
    LET edges == SelectSeq(_requests, LAMBDA a : heap[a]._entity = "edge")
    IN  edges[Len(edges) - last.args[1]]

RemovalOf(id, model_id) ==
    [ _entity |-> "individual",
      _operation |-> "remove",
      _individual_id |-> [_var |-> id, _use_var_p |-> TRUE],
      _arguments |->
          [k \in {"individual"}
                 \cup (IF Given(model_id) THEN {"model-id"} ELSE {}) |->
              IF k = "individual" THEN id ELSE model_id] ]

\* C22: remove_evidence(id, model_id) and remove_individual(id, model_id)
\* leave the same state and return the request set: given an id, the batch
\* as it was followed by one request, of entity 'individual' and operation
\* 'remove', with the id for its individual and the model id when one is
\* given, added as an action; given none, the batch and the intention as
\* they were.
RemoveEvidenceAsRemoveIndividual ==
    last.op \in {"remove_evidence", "remove_individual"}
    => /\ last.outcome = "ok"
       /\ last.ret = Anchor
       /\ IF Given(last.args[1])
          THEN /\ heap = Append(last.before.heap,
                                RemovalOf(last.args[1], last.args[2]))
               /\ _requests = Append(last.before.requests, Len(heap))
               /\ _intention = "action"
               /\ hints = [i \in 1..Len(_requests) |->
                              IF i = Len(_requests) THEN "action"
                              ELSE hints[i]]
          ELSE Untouched /\ heap = last.before.heap

\* C22, the case: remove_evidence was given an id and a model id.
EvidenceRemovedFromModel ==
    /\ last.op = "remove_evidence"
    /\ Given(last.args[1])
    /\ Given(last.args[2])
    /\ Len(Appended) = 1
    /\ _get(heap[Appended[1]], "model-id") = last.args[2]

\* The annotation pairs the request at a holds in the heap h.
PairsIn(h, a) ==
    IF "values" \in DOMAIN h[a]._arguments THEN h[a]._arguments["values"]
    ELSE <<>>

\* C23: add_annotation(key, values) on a request, given a string or a list,
\* leaves the pairs the request held, followed by one pair of the key and
\* the value for the string, or one for each value of the list in the order
\* of the list, and returns the number of pairs the request then holds;
\* given anything else it raises an error and leaves the request as it was.
AnnotationsAppended ==
    last.op = "request.add_annotation"
    => LET req == last.args[1]
           vals == last.args[3]
           given == IF vals.t = "string" THEN vals.v ELSE vals.v
       IN  IF vals.t \in {"string", "array"}
           THEN /\ last.outcome = "ok"
                /\ PairsIn(heap, req)
                      = PairsIn(last.before.heap, req)
                        \o [i \in 1..Len(given) |->
                               [key |-> last.args[2], value |-> given[i]]]
                /\ last.ret = Len(PairsIn(heap, req))
                /\ "values" \in DOMAIN heap[req]._arguments
           ELSE /\ last.outcome = "error"
                /\ heap = last.before.heap

\* C23, the case: add_annotation was given a list of two values on a request
\* that held a pair, and returned 3.
TwoValuesAfterOne ==
    /\ last.op = "request.add_annotation"
    /\ last.args[3] = Arr(<<"v1", "v2">>)
    /\ Len(PairsIn(last.before.heap, last.args[1])) = 1
    /\ last.ret = 3

\* What the last call returned is the request set (written so that a
\* result of another kind, a triple or an id, compares as different).
ReturnedRequestSet == ToString(last.ret) = ToString(Anchor)

\* C24: add_fact and remove_fact, given a triple with its three fields, add
\* exactly one request, of entity 'edge' and operation 'add' or 'remove',
\* and return the request set.
FactCallsReturnRequestSet ==
    (last.op \in {"add_fact", "remove_fact"} /\ ~ Incomplete(last.args[1]))
    => /\ last.outcome = "ok"
       /\ Len(Appended) = 1
       /\ heap[Appended[1]]._entity = "edge"
       /\ heap[Appended[1]]._operation =
             (IF last.op = "add_fact" THEN "add" ELSE "remove")
       /\ ReturnedRequestSet

\* C25: a call on the request set that raises an error leaves the requests
\* of the batch and the intention as they were before the call.
FailureAtomic ==
    (last.outcome = "error" /\ last.op /= "request.add_annotation")
    => /\ _requests = last.before.requests
       /\ _intention = last.before.intention

\* The request set the caller is calling.
Current ==
    [ _user_token |-> _user_token, _model_id |-> _model_id,
      _requests |-> _requests, _intention |-> _intention, hints |-> hints ]

\* C26: structure() called again at once returns what it has just returned,
\* token, intention and requests with their arguments; and in every state
\* that macro calls and structure() calls lead to, structure() returns what
\* it would return had it not been called before: the calls of structure()
\* in between make no difference to a later one.
StructureIdempotent ==
    /\ last.op = "structure" => structure_rset = last.ret
    /\ structure_rset = StructureOf(Current, unstructured)

\* C26, the case: structure() was called on a batch whose first request it
\* had gone over before and whose last request a macro has added since,
\* with a default model id to fill in.
StructuredAgainAfterMacro ==
    /\ last.op = "structure"
    /\ Given(_model_id)
    /\ Len(_requests) >= 2
    /\ last.before.heap[_requests[1]] /= unstructured[_requests[1]]
    /\ last.before.heap[_requests[Len(_requests)]]
          = unstructured[_requests[Len(_requests)]]
    /\ heap[_requests[Len(_requests)]]
          /= unstructured[_requests[Len(_requests)]]

\* Whether the last call was one of the two wrappers of add_evidence.
WrapperCalled ==
    last.op \in {"add_evidence_to_last_individual", "add_evidence_to_last_fact"}

\* What last_individual_id(0) gave before the last call, and gives now.
LastIndividualBefore ==
    last_individual_id(last.before.requests, last.before.heap, 0)

LastIndividualNow == last_individual_id(_requests, heap, 0)

\* What last_fact_triple(0) gave before the last call, and gives now.
LastFactBefore == last_fact_triple(last.before.requests, last.before.heap, 0)

LastFactNow == last_fact_triple(_requests, heap, 0)

\* C27 as stated: after either wrapper of add_evidence, last_individual_id(0)
\* and last_fact_triple(0) both return what they returned before the call.
WrappersTransparent ==
    WrapperCalled
    => /\ LastIndividualNow = LastIndividualBefore
       /\ LastFactNow = LastFactBefore

\* C27, as the code has it: after either wrapper last_fact_triple(0) returns
\* what it returned before; after add_evidence_to_last_individual that
\* returns, and after either wrapper that added nothing,
\* last_individual_id(0) returns what it returned before; after
\* add_evidence_to_last_fact that added requests it returns the id of the
\* floating evidence individual, the first request added, which no request
\* of the batch before the call had.
WrappersTransparentToFacts ==
    WrapperCalled
    => /\ LastFactNow = LastFactBefore
       /\ (last.op = "add_evidence_to_last_individual" /\ last.outcome = "ok")
          \/ Appended = <<>>
          => LastIndividualNow = LastIndividualBefore
       /\ last.op = "add_evidence_to_last_fact" /\ Appended /= <<>>
          => /\ LastIndividualNow = individual_id(heap[Appended[1]])
             /\ LastIndividualNow /= LastIndividualBefore
             /\ \A i \in 1..Len(last.before.requests) :
                   _get(last.before.heap[last.before.requests[i]],
                        "individual") /= LastIndividualNow

\* C27, the case: add_evidence_to_last_fact has added its three requests to
\* a batch with an individual and a fact the caller created, and the fact
\* found last is the same while the individual found last is another.
EvidenceIndividualFoundLast ==
    /\ last.op = "add_evidence_to_last_fact"
    /\ last.outcome = "ok"
    /\ Len(Appended) = 3
    /\ Given(LastIndividualBefore)
    /\ LastFactNow = LastFactBefore
    /\ LastIndividualNow /= LastIndividualBefore

\* C28: in a batch built with macro calls, every request of entity
\* 'individual' and an operation other than 'add' that structure() serializes
\* has an 'individual' argument, the id of its target, and no
\* 'assign-to-variable', whatever arguments the macro that built it was
\* called with, an absent individual id included.
ExplicitTargetSerialized ==
    last.op = "structure" =>
        \A i \in 1..Len(_requests) :
            LET entry == last.ret.requests[i]
                req == heap[_requests[i]]
            IN  (entry.entity = "individual" /\ entry.operation /= "add")
                => /\ "individual" \in DOMAIN entry.arguments
                   /\ entry.arguments["individual"] = individual_id(req)
                   /\ "assign-to-variable" \notin DOMAIN entry.arguments

====
